---- MODULE Spec2Model ----
(***************************************************************************)
(* Model of the lyra_hackathon ML service and training loader.             *)
(*                                                                         *)
(*   services/ml_api/predictor.py  Predictor (construction, analyze,       *)
(*                                 compare, similar posts)                 *)
(*   services/ml_api/explain.py    coefficient-based evidence              *)
(*   services/ml_api/main.py       HTTP handlers                           *)
(*   services/ml_api/db.py         run history                             *)
(*   ml_training/retriever.py      get_similar_posts                       *)
(*   ml_training/data_loader.py    load_datasets                           *)
(*   ml_training/utils.py          canonicalize_url, constants             *)
(*                                                                         *)
(* Real numbers are fixed-point integers in units of 1e-7 (Scale = 1.0).   *)
(* Texts and URLs are sequences of one-character strings.  The fitted      *)
(* scikit-learn estimators are opaque deterministic functions of the text: *)
(* they are tables drawn when the artifacts are written (Init) and never   *)
(* change afterwards.  Wall-clock values of a response (timestamp,         *)
(* latency, uuid) and the entropy figure are not modelled; the timestamp of *)
(* a response is the token "now".                                          *)
(***************************************************************************)
EXTENDS Integers, Sequences, FiniteSets, TLC

VARIABLES
    model_dir,      \* the model directory on disk: existence and files with their contents
    predictor,      \* the Predictor object (NoPredictor before/without construction)
    argsort_ties,   \* how this build's unstable np.argsort orders equal keys
    result,         \* outcome of the last direct call (Predictor method, retriever function)
    started,        \* main.py has been imported: the app accepts requests
    runs,           \* rows of the runs table of history.sqlite, in insertion order
    response,       \* the last HTTP response, with the request it answers
    data_dir,       \* the training CSV files per company
    bundle,         \* outcome of the last load_datasets call
    canon,          \* outcome of the last canonicalize_url call, with its argument
    inflight,       \* the Predictor calls in progress, one per worker thread
    estimator,      \* a RoleCompositionModel object and the outcome of the last call on it
    training        \* the training run: its position in main and what it has done

vars == <<model_dir, predictor, argsort_ties, result, started, runs, response, data_dir, bundle,
          canon, inflight, estimator, training>>

servingVars == <<model_dir, predictor, argsort_ties, result, started, runs, response>>
loaderVars == <<data_dir, bundle>>
unitVars == <<canon, inflight, estimator, training>>

-----------------------------------------------------------------------------
(* Fixed point and generic helpers *)

Scale == 10 * 1000 * 1000

Abs(x) == IF x < 0 THEN -x ELSE x

Min(a, b) == IF a < b THEN a ELSE b

Max(a, b) == IF a > b THEN a ELSE b

RECURSIVE SumSeq(_)
SumSeq(s) == IF Len(s) = 0 THEN 0 ELSE Head(s) + SumSeq(Tail(s))

RECURSIVE MaxSeq(_)
MaxSeq(s) == IF Len(s) = 1 THEN s[1] ELSE Max(Head(s), MaxSeq(Tail(s)))

MaxOf(S) == CHOOSE x \in S : \A y \in S : y <= x

\* Natural numbers of any size as sequences of digits in base 2^7, least
\* significant first, the highest digit non-zero (zero is the empty sequence)
DigitBits == 7

Base == 2 ^ DigitBits

RECURSIVE BigOf(_)
BigOf(n) == IF n = 0 THEN <<>> ELSE <<n % Base>> \o BigOf(n \div Base)

RECURSIVE BigValue(_)
BigValue(b) == IF Len(b) = 0 THEN 0 ELSE Head(b) + Base * BigValue(Tail(b))

RECURSIVE BigTrim(_)
BigTrim(b) ==
    IF Len(b) > 0 /\ b[Len(b)] = 0 THEN BigTrim(SubSeq(b, 1, Len(b) - 1)) ELSE b

DigitAt(b, i) == IF i >= 1 /\ i <= Len(b) THEN b[i] ELSE 0

\* b * n + carry, for a small n >= 1
RECURSIVE BigTimes(_, _, _)
BigTimes(b, n, carry) ==
    IF Len(b) = 0 THEN BigOf(carry)
    ELSE LET t == Head(b) * n + carry
         IN  <<t % Base>> \o BigTimes(Tail(b), n, t \div Base)

\* a + b + carry
RECURSIVE BigPlus(_, _, _)
BigPlus(a, b, carry) ==
    IF Len(a) = 0 /\ Len(b) = 0 THEN BigOf(carry)
    ELSE LET t == DigitAt(a, 1) + DigitAt(b, 1) + carry
         IN  <<t % Base>> \o BigPlus(IF Len(a) = 0 THEN a ELSE Tail(a),
                                     IF Len(b) = 0 THEN b ELSE Tail(b), t \div Base)

\* a - b - borrow for a >= b, not trimmed
RECURSIVE BigMinus(_, _, _)
BigMinus(a, b, borrow) ==
    IF Len(a) = 0 THEN <<>>
    ELSE LET t == Head(a) - DigitAt(b, 1) - borrow
         IN  <<IF t < 0 THEN t + Base ELSE t>>
             \o BigMinus(Tail(a), IF Len(b) = 0 THEN b ELSE Tail(b), IF t < 0 THEN 1 ELSE 0)

BigLess(a, b) ==
    IF Len(a) # Len(b) THEN Len(a) < Len(b)
    ELSE \E i \in 1..Len(a) : a[i] < b[i] /\ \A j \in (i + 1)..Len(a) : a[j] = b[j]

RECURSIVE BitLength(_)
BitLength(n) == IF n = 0 THEN 0 ELSE 1 + BitLength(n \div 2)

\* the number of bits of b
BigBits(b) == IF Len(b) = 0 THEN 0 ELSE (Len(b) - 1) * DigitBits + BitLength(b[Len(b)])

\* b * 2^k
ShiftLeft(b, k) ==
    IF Len(b) = 0 THEN b
    ELSE [i \in 1..(k \div DigitBits) |-> 0] \o BigTimes(b, 2 ^ (k % DigitBits), 0)

\* b / 2^k, rounded down
ShiftRight(b, k) ==
    LET c == SubSeq(b, (k \div DigitBits) + 1, Len(b))
        r == k % DigitBits
    IN  BigTrim([i \in 1..Len(c) |->
                    (c[i] \div (2 ^ r)) + (DigitAt(c, i + 1) % (2 ^ r)) * (2 ^ (DigitBits - r))])

\* bit i of b, the lowest being bit 1
BitOf(b, i) ==
    (DigitAt(b, ((i - 1) \div DigitBits) + 1) \div (2 ^ ((i - 1) % DigitBits))) % 2

\* one of the k lowest bits of b is set
AnyBitBelow(b, k) ==
    \/ \E i \in 1..Min(k \div DigitBits, Len(b)) : b[i] # 0
    \/ DigitAt(b, (k \div DigitBits) + 1) % (2 ^ (k % DigitBits)) # 0

\* b / 2^drop rounded to the nearest integer, ties to even; sticky says that the
\* number b stands for has a further non-zero part below its lowest bit
RoundBits(b, drop, sticky) ==
    IF drop <= 0 THEN b
    ELSE LET hi == ShiftRight(b, drop)
             below == sticky \/ AnyBitBelow(b, drop - 1)
             odd == DigitAt(hi, 1) % 2 = 1
         IN  IF BitOf(b, drop) = 1 /\ (below \/ odd) THEN BigPlus(hi, <<>>, 1) ELSE hi

\* A Python float (IEEE 754 binary64, away from its subnormal and overflow
\* ranges): sign, significand and exponent, the value being +-m * 2^e
MantissaBits == 53

\* the float nearest to +-m * 2^e (plus a non-zero part below m when sticky)
Float53(neg, m, e, sticky) ==
    LET n == BigBits(m)
    IN  IF n <= MantissaBits THEN [neg |-> neg, m |-> m, e |-> e]
        ELSE [neg |-> neg,
              m |-> RoundBits(m, n - MantissaBits, sticky),
              e |-> e + n - MantissaBits]

\* the expansion of (acc + r / s) * Base^-nfrac in base 2^7, continued until it
\* has more bits than a significand; sticky records whether a remainder is left
RECURSIVE QuotientDigits(_, _, _, _)
QuotientDigits(r, s, acc, nfrac) ==
    IF BigBits(acc) > MantissaBits
    THEN [m |-> acc, e |-> -(nfrac * DigitBits), sticky |-> r # 0]
    ELSE LET d == (r * Base) \div s
         IN  QuotientDigits((r * Base) % s, s,
                            IF Len(acc) = 0 /\ d = 0 THEN acc ELSE <<d>> \o acc,
                            nfrac + 1)

\* the float n / s of the integers n and s > 0: the quotient correctly rounded
FloatDiv(n, s) ==
    IF n = 0 THEN [neg |-> FALSE, m |-> <<>>, e |-> 0]
    ELSE LET q == QuotientDigits(Abs(n) % s, s, BigOf(Abs(n) \div s), 0)
         IN  Float53(n < 0, q.m, q.e, q.sticky)

\* the float x * n for a small integer n >= 1
FloatTimes(x, n) == Float53(x.neg, BigTimes(x.m, n, 0), x.e, FALSE)

\* the float x - y
FloatMinus(x, y) ==
    LET e == Min(x.e, y.e)
        a == ShiftLeft(x.m, x.e - e)
        b == ShiftLeft(y.m, y.e - e)
    IN  IF x.neg # y.neg THEN Float53(x.neg, BigPlus(a, b, 0), e, FALSE)
        ELSE IF BigLess(a, b) THEN Float53(~x.neg, BigTrim(BigMinus(b, a, 0)), e, FALSE)
        ELSE Float53(x.neg, BigTrim(BigMinus(a, b, 0)), e, FALSE)

\* Python round(x, ndigits) of a float, as a count of units of 10^-ndigits
\* (unit = 10^ndigits): the exact value of the float rounded to the nearest
\* unit, ties to even
PyRound(x, unit) ==
    LET n == BigTimes(x.m, unit, 0)
        q == IF x.e >= 0 THEN ShiftLeft(n, x.e) ELSE RoundBits(n, -x.e, FALSE)
    IN  IF x.neg THEN -BigValue(q) ELSE BigValue(q)

\* the float a fixed-point value stands for
Float(v) == FloatDiv(v, Scale)

\* Python seq[:k]
Take(s, k) ==
    IF k >= 0 THEN SubSeq(s, 1, Min(k, Len(s)))
    ELSE SubSeq(s, 1, Max(0, Len(s) + k))

\* Python seq[::-1]
Reverse(s) == [i \in 1..Len(s) |-> s[Len(s) + 1 - i]]

\* np.argsort (default kind, not stable): the indices that sort keys ascending.
\* Equal keys come out in an order the build decides: "asc" is what a stable
\* sort gives (ascending index), "desc" the opposite.
ArgSort(keys, ties) ==
    LET Before(i, j) ==
            keys[i] < keys[j]
            \/ (keys[i] = keys[j] /\ IF ties = "asc" THEN i < j ELSE i > j)
        Rank(i) == Cardinality({j \in 1..Len(keys) : Before(j, i)}) + 1
    IN  [r \in 1..Len(keys) |-> CHOOSE i \in 1..Len(keys) : Rank(i) = r]

\* Python sorted(..., reverse=True) / list.sort(reverse=True) on integer keys:
\* stable, so equal keys keep their original order.
SortedDescIdx(keys) ==
    LET Before(i, j) == keys[i] > keys[j] \/ (keys[i] = keys[j] /\ i < j)
        Rank(i) == Cardinality({j \in 1..Len(keys) : Before(j, i)}) + 1
    IN  [r \in 1..Len(keys) |-> CHOOSE i \in 1..Len(keys) : Rank(i) = r]

\* np.argmax: the first index of the maximum
ArgMax(s) == CHOOSE i \in 1..Len(s) :
                /\ \A j \in 1..Len(s) : s[j] <= s[i]
                /\ \A j \in 1..(i - 1) : s[j] < s[i]

\* list.index
IndexOf(s, x) == CHOOSE i \in 1..Len(s) : s[i] = x /\ \A j \in 1..(i - 1) : s[j] # x

InSeq(s, x) == \E i \in 1..Len(s) : s[i] = x

\* the index a dict built by assignments in sequence order keeps for the key x:
\* the last one
LastIndexOf(s, x) == CHOOSE i \in 1..Len(s) : s[i] = x /\ \A j \in (i + 1)..Len(s) : s[j] # x

\* the keys of such a dict, in insertion order: first appearance
RECURSIVE KeysOf(_, _)
KeysOf(s, seen) ==
    IF Len(s) = 0 THEN <<>>
    ELSE IF Head(s) \in seen THEN KeysOf(Tail(s), seen)
    ELSE <<Head(s)>> \o KeysOf(Tail(s), seen \cup {Head(s)})

\* str.isspace() of one character: space, \t, \n, \r, \f, U+000B,
\* U+001C..U+001F, U+0085, U+00A0 and U+1680.  The remaining Unicode spaces
\* (U+2000..U+200A, U+2028, U+2029, U+202F, U+205F, U+3000) cannot be written
\* in a string here and are outside the alphabet of the texts.
IsSpace(c) ==
    c \in {" ", "\t", "\n", "\r", "\f", "", "", "", "", "", "", " ", " "}

\* str.lstrip() / str.rstrip() / str.strip() without argument

RECURSIVE LStrip(_)
LStrip(s) == IF Len(s) > 0 /\ IsSpace(Head(s)) THEN LStrip(Tail(s)) ELSE s

RECURSIVE RStrip(_)
RStrip(s) == IF Len(s) > 0 /\ IsSpace(s[Len(s)]) THEN RStrip(SubSeq(s, 1, Len(s) - 1)) ELSE s

Strip(s) == RStrip(LStrip(s))

-----------------------------------------------------------------------------
(* Texts *)

TextA == <<"a">>
TextB == <<"b">>

\* request texts: empty, whitespace-only (a space and a form feed), padded on
\* both sides and plain
RawTexts == {<<>>, <<" ", "\f">>, <<"\f", "a", " ">>, TextB}

\* the texts the fitted models are ever asked about
ValidTexts == {Strip(t) : t \in RawTexts} \ {<<>>}

-----------------------------------------------------------------------------
(* Exceptions and optional values *)

Raise(exc) == [ok |-> FALSE, error |-> exc]

Return(v) == [ok |-> TRUE, value |-> v]

\* a call that returned None where it can also return an object
ReturnNone == [ok |-> TRUE, none |-> TRUE]

IsNone(out) == out.ok /\ "none" \in DOMAIN out

NoPredictor == [kind |-> "none"]

NoRetriever == [kind |-> "none"]

NoResult == [ok |-> TRUE, call |-> "none"]

\* dict.get(key, default)
Get(d, key, default) == IF key \in DOMAIN d THEN d[key] ELSE default

-----------------------------------------------------------------------------
(* services/ml_api/schemas.py *)

\* AnalyzeRequest: post_text has min_length 1 and is trimmed by the validator,
\* which rejects text that is empty after trimming.
AnalyzeRequest(post_text, company_hint) ==
    IF Len(post_text) < 1 THEN Raise("ValidationError")
    ELSE IF Len(Strip(post_text)) = 0 THEN Raise("ValidationError")
    ELSE Return([post_text |-> Strip(post_text), company_hint |-> company_hint])

\* CompareRequest: both texts are trimmed and must be non-empty after trimming.
CompareRequest(baseline_text, variant_text) ==
    IF Len(Strip(baseline_text)) = 0 \/ Len(Strip(variant_text)) = 0
    THEN Raise("ValidationError")
    ELSE Return([baseline_text |-> Strip(baseline_text),
                 variant_text |-> Strip(variant_text)])

-----------------------------------------------------------------------------
(* ml_training/models.py: RoleCompositionModel *)

\* Naturals below 10^14 as pairs <<hi, lo>> that stand for hi * 10^6 + lo,
\* with lo < 10^6
PairBase == 1000 * 1000

PairNorm(hi, lo) == <<hi + (lo \div PairBase), lo % PairBase>>

PairTimes(a, n) == PairNorm(a[1] * n, a[2] * n)

\* a - b for a >= b
PairMinus(a, b) ==
    IF a[2] >= b[2] THEN <<a[1] - b[1], a[2] - b[2]>>
    ELSE <<a[1] - b[1] - 1, a[2] + PairBase - b[2]>>

PairLess(a, b) == a[1] < b[1] \/ (a[1] = b[1] /\ a[2] < b[2])

RECURSIVE PairSum(_)
PairSum(s) ==
    IF Len(s) = 0 THEN <<0, 0>>
    ELSE PairNorm(Head(s)[1] + PairSum(Tail(s))[1], Head(s)[2] + PairSum(Tail(s))[2])

\* np.exp(-d) for the shifts d = max - x that occur, in units of 10^-12
ExpNeg(d) ==
    CASE d = 0 -> <<1000000, 0>>
      [] d = 5 -> <<999999, 500000>>
      [] d = 2000000 -> <<818730, 753078>>
      [] d = 3000000 -> <<740818, 220682>>
      [] d = 5000000 -> <<606530, 659713>>
      [] d = Scale -> <<367879, 441171>>
      [] d = 2 * Scale -> <<135335, 283237>>
      [] d = 3 * Scale -> <<49787, 68368>>
      [] d = 4 * Scale -> <<18315, 638889>>

\* t \div s and t % s for t < 10 * s: the quotient of the high parts is the
\* digit or one less
Digit(t, s) ==
    CHOOSE out \in
        {IF PairLess(u.r, s) THEN u ELSE [d |-> u.d + 1, r |-> PairMinus(u.r, s)] :
            u \in {[d |-> t[1] \div (s[1] + 1),
                    r |-> PairMinus(t, PairTimes(s, t[1] \div (s[1] + 1)))]}} : TRUE

\* the first n decimal digits of r / s after acc, for 0 <= r < s, and the rest
RECURSIVE FracDigits(_, _, _, _)
FracDigits(r, s, n, acc) ==
    IF n = 0 THEN [q |-> acc, r |-> r]
    ELSE CHOOSE out \in
            {FracDigits(f.r, s, n - 1, acc * 10 + f.d) :
                f \in {Digit(PairTimes(r, 10), s)}} : TRUE

\* The float e / s for 0 <= e <= s in fixed point: value is the nearest multiple
\* of 1e-7, side tells where the quotient lies: above it (1), on it (0) or
\* below it (-1).
FixDiv(e, s) ==
    IF e = s THEN [value |-> Scale, side |-> 0]
    ELSE CHOOSE out \in
            {LET up == ~PairLess(PairTimes(f.r, 2), s)
             IN  [value |-> IF up THEN f.q + 1 ELSE f.q,
                  side |-> IF f.r = <<0, 0>> THEN 0 ELSE IF up THEN -1 ELSE 1] :
                f \in {FracDigits(e, s, 7, 0)}} : TRUE

\* np.clip(total, 1e-12, None)
ClipLow(total) == IF total = <<0, 0>> THEN <<0, 1>> ELSE total

\* exp(x - max) / total over one row, total being the sum of the exponentials,
\* clipped or not
ExpQuotients(row, clipped) ==
    CHOOSE out \in
        {CHOOSE q \in
            {[i \in 1..Len(row) |-> FixDiv(e[i], total)] :
                total \in {IF clipped THEN ClipLow(PairSum(e)) ELSE PairSum(e)}} : TRUE :
            e \in {[i \in 1..Len(row) |-> ExpNeg(MaxSeq(row) - row[i])]}} : TRUE

\* utils.softmax_rows over one row: exp(x - max) / max(sum, 1e-12), each value
\* to the nearest 1e-7
softmax_rows(row) ==
    CHOOSE out \in
        {[i \in 1..Len(row) |-> q[i].value] : q \in {ExpQuotients(row, TRUE)}} : TRUE

\* self.pipeline of a RoleCompositionModel that was not fitted
NoPipeline == [kind |-> "none"]

\* Python's None where a dict or an array may be given
NoneValue == [none |-> TRUE]

\* the keyword parameters of TfidfVectorizer that build_tfidf_vectorizer neither
\* names nor sets itself
TfidfVectorizerKwargs ==
    {"input", "encoding", "decode_error", "preprocessor", "tokenizer", "analyzer",
     "stop_words", "token_pattern", "vocabulary", "binary", "dtype", "norm", "use_idf",
     "smooth_idf", "sublinear_tf"}

\* build_tfidf_vectorizer(**kwargs): TypeError for ** of None, for strip_accents
\* or lowercase (given twice to TfidfVectorizer) and for a keyword TfidfVectorizer
\* does not know; else the vectorizer, not yet fitted, with its parameters
build_tfidf_vectorizer(kwargs) ==
    IF kwargs = NoneValue THEN Raise("TypeError")
    ELSE IF DOMAIN kwargs \cap {"strip_accents", "lowercase"} # {} THEN Raise("TypeError")
    ELSE IF ~(DOMAIN kwargs \subseteq
                {"ngram_range", "min_df", "max_df", "max_features"}
                    \cup TfidfVectorizerKwargs)
    THEN Raise("TypeError")
    ELSE Return([fitted |-> FALSE,
                 ngram_range |-> Get(kwargs, "ngram_range", <<1, 2>>),
                 min_df |-> Get(kwargs, "min_df", 2),
                 max_df |-> Get(kwargs, "max_df", (95 * Scale) \div 100),
                 max_features |-> Get(kwargs, "max_features", 30000)])

\* RoleCompositionModel.__init__: tfidf_params or {}
RoleCompositionModel(tfidf_params, alpha_grid) ==
    [tfidf_params |-> IF tfidf_params = NoneValue \/ DOMAIN tfidf_params = {}
                      THEN <<>> ELSE tfidf_params,
     alpha_grid |-> alpha_grid,
     pipeline |-> NoPipeline]

\* BaseEstimator.set_params(tfidf_params=...) on a RoleCompositionModel
set_params(self, tfidf_params) == [self EXCEPT !.tfidf_params = tfidf_params]

\* the Pipeline self.pipeline holds has been fitted: it can predict
IsFitted(pipeline) == "predict" \in DOMAIN pipeline

\* RoleCompositionModel.fit.  Line 52 builds the vectorizer from self.tfidf_params
\* and may raise before self.pipeline is assigned, which leaves the model as it
\* was.  Else self.pipeline is assigned the new Pipeline (line 54), then fitted
\* (line 55): pipeline_fit is how self.pipeline.fit(X, y) ends for the data, with
\* the fitted Pipeline, or with an exception that leaves the Pipeline it was
\* fitting in self.pipeline.
fit(self, pipeline_fit) ==
    IF ~build_tfidf_vectorizer(self.tfidf_params).ok
    THEN [self |-> self, out |-> build_tfidf_vectorizer(self.tfidf_params)]
    ELSE [self |-> [self EXCEPT !.pipeline = pipeline_fit.pipeline],
          out |-> IF pipeline_fit.ok THEN Return("self") ELSE Raise(pipeline_fit.error)]

\* predict as it would be without the softmax
PredictWithoutSoftmax(self, X) ==
    IF self.pipeline = NoPipeline THEN Raise("RuntimeError")
    ELSE IF ~IsFitted(self.pipeline) THEN Raise("NotFittedError")
    ELSE [ok |-> TRUE,
          value |-> self.pipeline.predict[X],
          side |-> [i \in 1..Len(self.pipeline.predict[X]) |-> 0]]

\* RoleCompositionModel.predict, for one text: the row of probabilities, each
\* the nearest multiple of 1e-7 (value) with the side of it the float lies on
predict(self, X) ==
    IF self.pipeline = NoPipeline THEN Raise("RuntimeError")
    ELSE IF ~IsFitted(self.pipeline) THEN Raise("NotFittedError")
    ELSE CHOOSE out \in
            {[ok |-> TRUE,
              value |-> [i \in 1..Len(q) |-> q[i].value],
              side |-> [i \in 1..Len(q) |-> q[i].side]] :
                q \in {ExpQuotients(self.pipeline.predict[X], TRUE)}} : TRUE

\* RoleCompositionModel.predict_raw, for one text
predict_raw(self, X) ==
    IF self.pipeline = NoPipeline THEN Raise("RuntimeError")
    ELSE IF ~IsFitted(self.pipeline) THEN Raise("NotFittedError")
    ELSE Return(self.pipeline.predict[X])

\* get_tfidf as it would be without the test of self.pipeline
GetTfidfUnchecked(self) == Return(Get(self.pipeline, "tfidf", "None"))

\* RoleCompositionModel.get_tfidf
get_tfidf(self) ==
    IF self.pipeline = NoPipeline THEN Raise("RuntimeError")
    ELSE Return(self.pipeline.tfidf)

-----------------------------------------------------------------------------
(* services/ml_api/explain.py *)

\* hasattr(model, "named_steps"): a Pipeline, whose steps are the fields tfidf,
\* clf and model
HasNamedSteps(model) == DOMAIN model \cap {"tfidf", "clf", "model"} # {}

\* hasattr(model, "get_tfidf"): a RoleCompositionModel
HasGetTfidf(model) == "pipeline" \in DOMAIN model

\* get_vectorizer: the "tfidf" step of a pipeline (None without that step),
\* the role wrapper's get_tfidf(), or None for any other object
get_vectorizer(model) ==
    IF HasNamedSteps(model)
    THEN IF "tfidf" \in DOMAIN model THEN Return(model.tfidf) ELSE ReturnNone
    ELSE IF HasGetTfidf(model) THEN get_tfidf(model)
    ELSE ReturnNone

\* vectorize: the sparse row of the text (CSR data and 1-based column indices)
\* and the feature names
vectorize(text, vectorizer) ==
    [vec |-> vectorizer.transform[text], feature_names |-> vectorizer.feature_names]

\* the contributions ranked by feature value alone
TopContributionsByValue(vec, coefs, feature_names, top_k, ties) ==
    IF vec.ncols # Len(coefs) THEN <<>>
    ELSE LET contributions == [i \in 1..Len(vec.data) |-> vec.data[i] * coefs[vec.indices[i]]]
             order == Take(Reverse(ArgSort(vec.data, ties)), top_k)
         IN  IF Len(contributions) = 0 THEN <<>>
             ELSE [n \in 1..Len(order) |->
                      [ngram |-> feature_names[vec.indices[order[n]]],
                       weight |-> contributions[order[n]]]]

\* top_contributions_from_vec; `ties` is the order np.argsort gives equal keys
top_contributions_from_vec(vec, coefs, feature_names, top_k, ties) ==
    IF vec.ncols # Len(coefs) THEN <<>>
    ELSE LET contributions == [i \in 1..Len(vec.data) |-> vec.data[i] * coefs[vec.indices[i]]]
             absolute == [i \in 1..Len(contributions) |-> Abs(contributions[i])]
             order == Take(Reverse(ArgSort(absolute, ties)), top_k)
         IN  IF Len(contributions) = 0 THEN <<>>
             ELSE [n \in 1..Len(order) |->
                      [ngram |-> feature_names[vec.indices[order[n]]],
                       weight |-> contributions[order[n]]]]

RECURSIVE Flatten(_)
Flatten(rows) == IF Len(rows) = 0 THEN <<>> ELSE Head(rows) \o Flatten(Tail(rows))

\* choose_risk_coefficients: the coefficient row of the target class; when the
\* estimator does not know the class, the row indexed by the arg-max of the
\* flattened coefficient matrix (an IndexError when there is no such row).
\* None for an estimator without coef_ or without classes_.
choose_risk_coefficients(risk_clf, target_class) ==
    IF "coef_" \notin DOMAIN risk_clf \/ "classes_" \notin DOMAIN risk_clf THEN ReturnNone
    ELSE
    LET classes == risk_clf.classes_
        idx == IF InSeq(classes, target_class) THEN IndexOf(classes, target_class)
               ELSE ArgMax(Flatten(risk_clf.coef_))
    IN  IF idx > Len(risk_clf.coef_) THEN Raise("IndexError")
        ELSE Return(risk_clf.coef_[idx])

-----------------------------------------------------------------------------
(* services/ml_api/predictor.py: construction *)

MetadataFile == "metadata.json"
RoleModelFile == "role_model.joblib"
NarrativeModelFile == "narrative_model.joblib"
RiskModelFile == "risk_model.joblib"
VectorizerFile == "shared_tfidf.joblib"
MatrixFile == "train_tfidf_matrix.npz"
IndexFile == "train_post_index.csv"

ModelFiles == {RoleModelFile, NarrativeModelFile, RiskModelFile}
RetrieverFiles == {VectorizerFile, MatrixFile, IndexFile}

Exists(dir, filename) == filename \in DOMAIN dir.files

\* Predictor._load_metadata
_load_metadata(dir) ==
    IF ~Exists(dir, MetadataFile) THEN Raise("FileNotFoundError")
    ELSE Return(dir.files[MetadataFile])

\* Predictor._load_artifact
_load_artifact(dir, filename) ==
    IF ~Exists(dir, filename) THEN Raise("FileNotFoundError")
    ELSE Return(dir.files[filename])

\* Predictor._load_retriever: all three files or no retriever at all
_load_retriever(dir) ==
    IF ~(Exists(dir, VectorizerFile) /\ Exists(dir, MatrixFile) /\ Exists(dir, IndexFile))
    THEN NoRetriever
    ELSE [kind |-> "retriever",
          vectorizer |-> dir.files[VectorizerFile],
          matrix |-> dir.files[MatrixFile],
          index |-> dir.files[IndexFile]]

\* mutant: the metadata's role buckets and narrative labels are not checked
PredictorInitUncheckedMetadata(dir) ==
    IF ~dir.exists THEN Raise("FileNotFoundError")
    ELSE LET metadata == _load_metadata(dir) IN
    IF ~metadata.ok THEN metadata
    ELSE LET role_model == _load_artifact(dir, RoleModelFile)
             narrative_model == _load_artifact(dir, NarrativeModelFile)
             risk_model == _load_artifact(dir, RiskModelFile)
         IN
    IF ~role_model.ok THEN role_model
    ELSE IF ~narrative_model.ok THEN narrative_model
    ELSE IF ~risk_model.ok THEN risk_model
    ELSE Return([kind |-> "predictor",
                 model_dir |-> dir.path,
                 metadata |-> metadata.value,
                 role_buckets |-> Get(metadata.value, "role_buckets", <<>>),
                 narrative_labels |-> Get(metadata.value, "narrative_labels", <<>>),
                 narrative_threshold |-> Get(metadata.value, "narrative_threshold", Scale \div 2),
                 role_model |-> role_model.value,
                 narrative_model |-> narrative_model.value,
                 risk_model |-> risk_model.value,
                 retriever |-> _load_retriever(dir)])

\* Predictor.__init__: the constructed object, or the exception raised
PredictorInit(dir) ==
    IF ~dir.exists THEN Raise("FileNotFoundError")
    ELSE LET metadata == _load_metadata(dir) IN
    IF ~metadata.ok THEN metadata
    ELSE LET role_buckets == Get(metadata.value, "role_buckets", <<>>)
             narrative_labels == Get(metadata.value, "narrative_labels", <<>>)
             narrative_threshold == Get(metadata.value, "narrative_threshold", Scale \div 2)
             role_model == _load_artifact(dir, RoleModelFile)
             narrative_model == _load_artifact(dir, NarrativeModelFile)
             risk_model == _load_artifact(dir, RiskModelFile)
         IN
    IF Len(role_buckets) = 0 \/ Len(narrative_labels) = 0 THEN Raise("ValueError")
    ELSE IF ~role_model.ok THEN role_model
    ELSE IF ~narrative_model.ok THEN narrative_model
    ELSE IF ~risk_model.ok THEN risk_model
    ELSE Return([kind |-> "predictor",
                 model_dir |-> dir.path,
                 metadata |-> metadata.value,
                 role_buckets |-> role_buckets,
                 narrative_labels |-> narrative_labels,
                 narrative_threshold |-> narrative_threshold,
                 role_model |-> role_model.value,
                 narrative_model |-> narrative_model.value,
                 risk_model |-> risk_model.value,
                 retriever |-> _load_retriever(dir)])

\* load_predictor
load_predictor(dir) == PredictorInit(dir)

-----------------------------------------------------------------------------
(* services/ml_api/predictor.py: per-model predictions *)

\* scipy.special.softmax over one row: exp(x - max) / sum
Softmax(row) ==
    CHOOSE out \in
        {[i \in 1..Len(row) |-> q[i].value] : q \in {ExpQuotients(row, FALSE)}} : TRUE

\* np.isclose(x, 1.0): |x - 1| <= atol + rtol * 1 = 1e-8 + 1e-5
IsCloseToOne(x) == Abs(x - Scale) * 10 <= 1001

\* Predictor._role_distribution: the dict bucket -> probability as the sequence
\* of its items.  A bucket that is repeated in role_buckets keeps the place of
\* its first position and the probability of its last; more buckets than
\* columns raise; so does a role model that cannot predict.
_role_distribution(self, text) ==
    CHOOSE out \in
        {IF ~pred.ok THEN pred
         ELSE LET raw_preds == pred.value
                  again == (\E i \in 1..Len(raw_preds) : raw_preds[i] < 0)
                              \/ ~IsCloseToOne(SumSeq(raw_preds))
                  probs == IF again THEN Softmax(raw_preds) ELSE raw_preds
                  sides == IF again
                           THEN [i \in 1..Len(raw_preds) |-> ExpQuotients(raw_preds, FALSE)[i].side]
                           ELSE pred.side
                  buckets == self.role_buckets
                  keys == KeysOf(buckets, {})
              IN  IF Len(buckets) > Len(probs) THEN Raise("IndexError")
                  ELSE Return([n \in 1..Len(keys) |->
                                  [bucket |-> keys[n],
                                   value |-> probs[LastIndexOf(buckets, keys[n])],
                                   side |-> sides[LastIndexOf(buckets, keys[n])]]]) :
            pred \in {predict(self.role_model, text)}} : TRUE

\* the serving threshold of Predictor._narratives (prob >= 0.10)
ServingThreshold == Scale \div 10

\* _narratives as it would be with a strict comparison (prob > 0.10)
NarrativesFlaggedAbove(self, text) ==
    LET probs == self.narrative_model.predict_proba[text]
        labels == self.narrative_labels
    IN  IF Len(labels) > Len(probs) THEN Raise("IndexError")
        ELSE Return([label \in {labels[i] : i \in 1..Len(labels)} |->
                        LET prob == probs[LastIndexOf(labels, label)]
                        IN  [prob |-> prob, flag |-> prob > ServingThreshold]])

\* Predictor._narratives: label -> {prob, flag}.  results[label] is assigned in
\* the order of narrative_labels, so a repeated label keeps its last column;
\* more labels than columns raise.
_narratives(self, text) ==
    LET probs == self.narrative_model.predict_proba[text]
        labels == self.narrative_labels
    IN  IF Len(labels) > Len(probs) THEN Raise("IndexError")
        ELSE Return([label \in {labels[i] : i \in 1..Len(labels)} |->
                        LET prob == probs[LastIndexOf(labels, label)]
                        IN  [prob |-> prob, flag |-> prob >= ServingThreshold]])

ExpectedClasses == <<"Helpful", "Harmless", "Harmful">>

\* Predictor._risk_model_preds: the probability map and the arg-max class.  The
\* map is filled over zip(model_classes, probs), a repeated class keeping its
\* last probability; np.argmax of an empty row raises ValueError, an arg-max
\* beyond the classes IndexError.
_risk_model_preds(self, text) ==
    LET probs == self.risk_model.predict_proba[text]
        model_classes == Get(self.risk_model, "classes_", ExpectedClasses)
        zipped == Take(model_classes, Min(Len(model_classes), Len(probs)))
        keys == {ExpectedClasses[i] : i \in 1..3} \cup {zipped[i] : i \in 1..Len(zipped)}
        prob_map == [c \in keys |->
                        IF InSeq(zipped, c) THEN probs[LastIndexOf(zipped, c)] ELSE 0]
    IN  IF Len(probs) = 0 THEN Raise("ValueError")
        ELSE IF Len(model_classes) > 0 /\ ArgMax(probs) > Len(model_classes)
        THEN Raise("IndexError")
        ELSE Return([prob_map |-> prob_map,
                     pred |-> IF Len(model_classes) > 0 THEN model_classes[ArgMax(probs)]
                              ELSE "Helpful"])

HarmfulLabels == {"toxic_culture", "elitism", "credibility_overclaim", "culture_misalignment"}

Flagged(narratives, lbl) == lbl \in DOMAIN narratives /\ narratives[lbl].flag

\* mutant: elitism left out of the harmful labels
RiskRuleBasedWithoutElitism(narratives) ==
    IF \E lbl \in HarmfulLabels \ {"elitism"} : Flagged(narratives, lbl) THEN "Harmful"
    ELSE IF Flagged(narratives, "burnout") THEN "Harmless"
    ELSE "Helpful"

\* mutant: burnout treated as a harmful label
RiskRuleBasedBurnoutHarmful(narratives) ==
    IF \E lbl \in HarmfulLabels \cup {"burnout"} : Flagged(narratives, lbl) THEN "Harmful"
    ELSE "Helpful"

\* Predictor._risk_rule_based
_risk_rule_based(narratives) ==
    IF \E lbl \in HarmfulLabels : Flagged(narratives, lbl) THEN "Harmful"
    ELSE IF Flagged(narratives, "burnout") THEN "Harmless"
    ELSE "Helpful"

\* mutant: the ranking is not reversed, so the least similar rows come first
SimilarPostsAscending(self, text, k, ties) ==
    IF self.retriever.kind = "none" THEN <<>>
    ELSE LET sims == self.retriever.matrix.similarity[text]
             top_idx == Take(ArgSort(sims, ties), k)
             index_df == self.retriever.index.rows
         IN  [n \in 1..Len(top_idx) |->
                 [company |-> index_df[top_idx[n]].company,
                  post_url |-> index_df[top_idx[n]].post_url,
                  post_text_snippet |-> index_df[top_idx[n]].post_url,
                  score |-> sims[top_idx[n]]]]

\* Predictor._similar_posts: the k rows of the index most similar to the text.
\* cosine_similarity(query_vec, matrix) is the matrix file's row of similarities
\* for the text.
_similar_posts(self, text, k, ties) ==
    IF self.retriever.kind = "none" THEN <<>>
    ELSE LET sims == self.retriever.matrix.similarity[text]
             top_idx == Take(Reverse(ArgSort(sims, ties)), k)
             index_df == self.retriever.index.rows
         IN  [n \in 1..Len(top_idx) |->
                 [company |-> index_df[top_idx[n]].company,
                  post_url |-> index_df[top_idx[n]].post_url,
                  post_text_snippet |-> index_df[top_idx[n]].post_url,
                  score |-> sims[top_idx[n]]]]

\* Predictor._risk_top_ngrams: no contributions without a vectorizer, without
\* a "clf" step or without coefficients
_risk_top_ngrams(self, text, ties) ==
    LET vec == get_vectorizer(self.risk_model)
        coefs == choose_risk_coefficients(self.risk_model.clf, "Harmful")
        v == vectorize(text, vec.value)
    IN  IF ~vec.ok THEN vec
        ELSE IF IsNone(vec) THEN Return(<<>>)
        ELSE IF "clf" \notin DOMAIN self.risk_model THEN Return(<<>>)
        ELSE IF ~coefs.ok THEN coefs
        ELSE IF IsNone(coefs) THEN Return(<<>>)
        ELSE Return(top_contributions_from_vec(v.vec, coefs.value, v.feature_names, 8, ties))

\* hasattr(est, "coef_")
HasCoef(est) == "coef_" \in DOMAIN est

\* Predictor._narrative_top_ngrams: label -> contributions, for the labels that
\* zip(self.narrative_labels, clf.estimators_) pairs with an estimator that has
\* coef_; a repeated label keeps the last such estimator.  No entries without
\* a vectorizer, a "clf" step or its estimators_.
_narrative_top_ngrams(self, text, ties) ==
    LET vec == get_vectorizer(self.narrative_model)
        v == vectorize(text, vec.value)
        estimators == self.narrative_model.clf.estimators_
        zipped == Take(self.narrative_labels, Min(Len(self.narrative_labels), Len(estimators)))
        with_coef(label) == {i \in 1..Len(zipped) : zipped[i] = label /\ HasCoef(estimators[i])}
        last(label) == CHOOSE i \in with_coef(label) : \A j \in with_coef(label) : j <= i
    IN  IF ~vec.ok THEN vec
        ELSE IF IsNone(vec) THEN Return(<<>>)
        ELSE IF "clf" \notin DOMAIN self.narrative_model THEN Return(<<>>)
        ELSE IF "estimators_" \notin DOMAIN self.narrative_model.clf THEN Return(<<>>)
        ELSE Return(
            [label \in {zipped[i] : i \in {j \in 1..Len(zipped) : HasCoef(estimators[j])}} |->
                top_contributions_from_vec(
                    v.vec, estimators[last(label)].coef_, v.feature_names, 6, ties)])

\* Predictor._role_top_ngrams: role -> contributions, for the top roles whose
\* estimator has coef_.  bucket_to_est pairs the i-th estimator with
\* self.role_buckets[i] (a later estimator of the same bucket replaces the
\* earlier one): with more estimators than buckets the subscript raises.  No
\* entries without a vectorizer or without the estimators of the "model" step;
\* get_tfidf of a wrapper that was not fitted raises.
_role_top_ngrams(self, text, top_roles, ties) ==
    LET vec == get_vectorizer(self.role_model)
        v == vectorize(text, vec.value)
        estimators == self.role_model.pipeline.estimators_
        n == Len(estimators)
        paired == Take(self.role_buckets, n)
    IN  IF ~vec.ok THEN vec
        ELSE IF IsNone(vec) THEN Return(<<>>)
        ELSE IF "pipeline" \notin DOMAIN self.role_model THEN Return(<<>>)
        ELSE IF self.role_model.pipeline = NoPipeline THEN Return(<<>>)
        ELSE IF "estimators_" \notin DOMAIN self.role_model.pipeline THEN Return(<<>>)
        ELSE IF n > Len(self.role_buckets) THEN Raise("IndexError")
        ELSE Return(
            [role \in {r \in {top_roles[i] : i \in 1..Len(top_roles)}
                                \cap {paired[i] : i \in 1..n} :
                          HasCoef(estimators[LastIndexOf(paired, r)])} |->
                top_contributions_from_vec(
                    v.vec, estimators[LastIndexOf(paired, role)].coef_, v.feature_names,
                    6, ties)])

-----------------------------------------------------------------------------
(* services/ml_api/predictor.py: analyze and compare *)

\* risk level from the largest class probability: >= 0.75 High, >= 0.55 Medium
RiskLevel(max_prob) ==
    IF max_prob * 100 >= 75 * Scale THEN "High"
    ELSE IF max_prob * 100 >= 55 * Scale THEN "Medium"
    ELSE "Low"

\* round(v * 100, 4) of the float that lies on the given side of the
\* fixed-point value, in units of 1e-4: a float off the value is off every tie
\* between two units as well, on the same side
RoundPct(value, side) ==
    IF side = 0 THEN PyRound(FloatTimes(Float(value), 100), 10000)
    ELSE (value \div 10)
         + (IF value % 10 > 5 \/ (value % 10 = 5 /\ side > 0) THEN 1 ELSE 0)

\* The local variables of an analyze call that has not run its first statement
Frame(request) ==
    [pc |-> "strip", request |-> request, text |-> <<>>, narratives |-> <<>>,
     role_all |-> <<>>, role_top5 |-> <<>>, risk |-> <<>>, evidence |-> <<>>,
     out |-> NoResult]

\* The call is over: it has returned a value or raised
Finished(frame, out) == [frame EXCEPT !.pc = "done", !.out = out]

\* Predictor.analyze, lines 195-197: the text is trimmed, an empty one is rejected.
\* Each group of statements of analyze is an operator from the Predictor as it is
\* when the group runs and the local variables to the Predictor and the local
\* variables afterwards; the statements read attributes of self and assign none.
analyze_strip(self, frame) ==
    LET text == Strip(frame.request.post_text)
    IN  [self |-> self,
         frame |-> IF Len(text) = 0 THEN Finished(frame, Raise("ValueError"))
                   ELSE [frame EXCEPT !.pc = "narratives", !.text = text]]

\* line 199 as it would be if _narratives emptied the label list it has iterated
NarrativesConsumingLabels(self, frame) ==
    CHOOSE next \in
        {[self |-> [self EXCEPT !.narrative_labels = <<>>],
          frame |-> IF ~out.ok THEN Finished(frame, out)
                    ELSE [frame EXCEPT !.pc = "roles", !.narratives = out.value]] :
            out \in {_narratives(self, frame.text)}} : TRUE

\* Predictor.analyze, line 199: narratives = self._narratives(text)
analyze_narratives(self, frame) ==
    CHOOSE next \in
        {[self |-> self,
          frame |-> IF ~out.ok THEN Finished(frame, out)
                    ELSE [frame EXCEPT !.pc = "roles", !.narratives = out.value]] :
            out \in {_narratives(self, frame.text)}} : TRUE

\* Predictor.analyze, lines 200-203: the role distribution, its percentages and
\* the five largest.  pct is in units of 1e-4 percent: round(v * 100, 4).
analyze_roles(self, frame) ==
    CHOOSE next \in
        {[self |-> self,
          frame |->
            IF ~role_out.ok THEN Finished(frame, role_out)
            ELSE LET role_dist == role_out.value
                     role_all == [i \in 1..Len(role_dist) |->
                                     [role |-> role_dist[i].bucket,
                                      pct |-> RoundPct(role_dist[i].value, role_dist[i].side)]]
                     by_pct == SortedDescIdx([i \in 1..Len(role_all) |-> role_all[i].pct])
                 IN  [frame EXCEPT
                         !.pc = "risk",
                         !.role_all = role_all,
                         !.role_top5 = Take([i \in 1..Len(role_all) |-> role_all[by_pct[i]]], 5)]] :
            role_out \in {_role_distribution(self, frame.text)}} : TRUE

\* Predictor.analyze, lines 205-213: the class probabilities of the risk model, the
\* rule-based class and the risk level
analyze_risk(self, frame) ==
    CHOOSE next \in
        {[self |-> self,
          frame |->
            IF ~risk.ok THEN Finished(frame, risk)
            ELSE LET risk_probs == risk.value.prob_map
                     max_prob == MaxOf({risk_probs[k] : k \in DOMAIN risk_probs})
                 IN  [frame EXCEPT
                         !.pc = "evidence",
                         !.risk = [risk_class |-> _risk_rule_based(frame.narratives),
                                   risk_probs |-> risk_probs,
                                   risk_level |-> RiskLevel(max_prob)]]] :
            risk \in {_risk_model_preds(self, frame.text)}} : TRUE

\* Predictor.analyze, lines 215-217: the top n-grams of the three models
analyze_evidence(self, frame, ties) ==
    CHOOSE next \in
        {[self |-> self,
          frame |->
            IF ~risk_top.ok THEN Finished(frame, risk_top)
            ELSE IF ~narrative_top.ok THEN Finished(frame, narrative_top)
            ELSE IF ~role_top.ok THEN Finished(frame, role_top)
            ELSE [frame EXCEPT
                     !.pc = "respond",
                     !.evidence = [risk_top_ngrams |-> risk_top.value,
                                   narrative_top_ngrams |-> narrative_top.value,
                                   role_top_ngrams |-> role_top.value]]] :
            risk_top \in {_risk_top_ngrams(self, frame.text, ties)},
            narrative_top \in {_narrative_top_ngrams(self, frame.text, ties)},
            role_top \in {_role_top_ngrams(self, frame.text,
                                           [i \in 1..Len(frame.role_top5) |->
                                               frame.role_top5[i].role], ties)}} : TRUE

\* Predictor.analyze, lines 219-254: the primary reason and the response
analyze_respond(self, frame) ==
    LET risk_top == frame.evidence.risk_top_ngrams
        narratives == frame.narratives
        primary_reason ==
            IF Len(risk_top) > 0
            THEN [text |-> "Top harmful driver",
                  ngram |-> risk_top[1].ngram,
                  weight |-> risk_top[1].weight]
            ELSE [text |-> "No strong harmful signals."]
    IN  [self |-> self,
         frame |-> Finished(frame, Return(
             [input_text |-> frame.text,
              audience |-> IF frame.request.company_hint = "" THEN "None"
                           ELSE frame.request.company_hint,
              role_distribution_top5 |-> frame.role_top5,
              role_distribution_all |-> frame.role_all,
              risk |-> [risk_class |-> frame.risk.risk_class,
                        risk_probs |-> frame.risk.risk_probs,
                        risk_level |-> frame.risk.risk_level,
                        primary_risk_reason |-> primary_reason],
              narratives |->
                  [narrative_probs |-> [k \in DOMAIN narratives |-> narratives[k].prob],
                   narrative_flags |-> [k \in DOMAIN narratives |-> narratives[k].flag]],
              evidence |-> frame.evidence,
              meta |-> [model_dir_used |-> self.model_dir, timestamp_iso |-> "now"]]))]

\* the next group of statements of an analyze call in progress
analyze_step(self, frame, ties) ==
    CASE frame.pc = "strip" -> analyze_strip(self, frame)
      [] frame.pc = "narratives" -> analyze_narratives(self, frame)
      [] frame.pc = "roles" -> analyze_roles(self, frame)
      [] frame.pc = "risk" -> analyze_risk(self, frame)
      [] frame.pc = "evidence" -> analyze_evidence(self, frame, ties)
      [] frame.pc = "respond" -> analyze_respond(self, frame)

\* an analyze call run to its end: the Predictor afterwards and the outcome
RECURSIVE AnalyzeRun(_, _, _)
AnalyzeRun(self, frame, ties) ==
    IF frame.pc = "done" THEN [self |-> self, out |-> frame.out]
    ELSE CHOOSE run \in
            {AnalyzeRun(next.self, next.frame, ties) :
                next \in {analyze_step(self, frame, ties)}} : TRUE

\* Predictor.analyze: the response, or the exception raised
analyze(self, request, ties) == AnalyzeRun(self, Frame(request), ties).out

\* the terms of a phrase list in order of first appearance (dict insertion order)
RECURSIVE TermsOf(_, _)
TermsOf(phrases, seen) ==
    IF Len(phrases) = 0 THEN <<>>
    ELSE IF Head(phrases).ngram \in seen THEN TermsOf(Tail(phrases), seen)
    ELSE <<Head(phrases).ngram>> \o TermsOf(Tail(phrases), seen \cup {Head(phrases).ngram})

RECURSIVE WeightOf(_, _)
WeightOf(phrases, term) ==
    IF Len(phrases) = 0 THEN 0
    ELSE (IF Head(phrases).ngram = term THEN Head(phrases).weight ELSE 0)
         + WeightOf(Tail(phrases), term)

\* mutant: the baseline's contributions are added instead of negated
CompareTopPhrasesAdded(baseline_phrases, variant_phrases) ==
    LET terms == TermsOf(baseline_phrases \o variant_phrases, {})
        items == [i \in 1..Len(terms) |->
                    [ngram |-> terms[i],
                     weight |-> WeightOf(variant_phrases, terms[i])
                                + WeightOf(baseline_phrases, terms[i])]]
        order == SortedDescIdx([i \in 1..Len(items) |-> Abs(items[i].weight)])
    IN  Take([i \in 1..Len(items) |-> items[order[i]]], 10)

\* mutant: the merged phrases ranked by signed weight
CompareTopPhrasesBySignedWeight(baseline_phrases, variant_phrases) ==
    LET terms == TermsOf(baseline_phrases \o variant_phrases, {})
        items == [i \in 1..Len(terms) |->
                    [ngram |-> terms[i],
                     weight |-> WeightOf(variant_phrases, terms[i])
                                - WeightOf(baseline_phrases, terms[i])]]
        order == SortedDescIdx([i \in 1..Len(items) |-> items[i].weight])
    IN  Take([i \in 1..Len(items) |-> items[order[i]]], 10)

\* Predictor._compare_top_phrases
_compare_top_phrases(baseline_phrases, variant_phrases) ==
    LET terms == TermsOf(baseline_phrases \o variant_phrases, {})
        items == [i \in 1..Len(terms) |->
                    [ngram |-> terms[i],
                     weight |-> WeightOf(variant_phrases, terms[i])
                                - WeightOf(baseline_phrases, terms[i])]]
        order == SortedDescIdx([i \in 1..Len(items) |-> Abs(items[i].weight)])
    IN  Take([i \in 1..Len(items) |-> items[order[i]]], 10)

\* pct of the first entry of role_all with the given role, or 0.0
PctOf(role_all, role) ==
    IF \E i \in 1..Len(role_all) : role_all[i].role = role
    THEN role_all[CHOOSE i \in 1..Len(role_all) :
                     role_all[i].role = role /\ \A j \in 1..(i - 1) : role_all[j].role # role].pct
    ELSE 0

\* Predictor.compare, after its two analyze calls: the deltas (variant minus baseline).
\* round(d, 4) of a pct difference is exact; round(d, 6) of a probability
\* difference drops the seventh decimal.
compare_deltas(baseline, variant) ==
    IF ~baseline.ok THEN baseline
    ELSE IF ~variant.ok THEN variant
    ELSE
    LET b == baseline.value
        v == variant.value
        roles == {b.role_distribution_all[i].role : i \in 1..Len(b.role_distribution_all)}
        role_delta == [r \in roles |->
                          PctOf(v.role_distribution_all, r) - PctOf(b.role_distribution_all, r)]
        risk_delta == [k \in {ExpectedClasses[i] : i \in 1..3} |->
                          PyRound(FloatMinus(Float(Get(v.risk.risk_probs, k, 0)),
                                             Float(Get(b.risk.risk_probs, k, 0))), 1000000)]
        changed_phrases == _compare_top_phrases(b.evidence.risk_top_ngrams,
                                                v.evidence.risk_top_ngrams)
    IN  Return([baseline |-> b,
                variant |-> v,
                delta |-> [role_pct_delta |-> role_delta,
                           risk_prob_delta |-> risk_delta,
                           changed_top_phrases |-> changed_phrases]])

\* Predictor.compare: the two requests, the two analyze calls, the second on the
\* Predictor the first leaves, and the deltas
compare(self, baseline_text, variant_text, ties) ==
    LET baseline_req == AnalyzeRequest(baseline_text, "None")
        variant_req == AnalyzeRequest(variant_text, "None")
    IN
    IF ~baseline_req.ok THEN baseline_req
    ELSE IF ~variant_req.ok THEN variant_req
    ELSE CHOOSE out \in
            {compare_deltas(baseline.out,
                            AnalyzeRun(baseline.self, Frame(variant_req.value), ties).out) :
                baseline \in {AnalyzeRun(self, Frame(baseline_req.value), ties)}} : TRUE

-----------------------------------------------------------------------------
(* ml_training/retriever.py *)

\* get_similar_posts: reads the three retriever files of the model directory
\* (an exception when one is missing) and ranks as _similar_posts does; each
\* record is the whole row of the index with its similarity.  The
\* draft is not trimmed; the vectorizer's tokenizer ignores the padding.
get_similar_posts(draft_text, k, dir, ties) ==
    IF Len(draft_text) = 0 \/ Len(Strip(draft_text)) = 0 THEN Raise("ValueError")
    ELSE IF ~(Exists(dir, VectorizerFile) /\ Exists(dir, MatrixFile) /\ Exists(dir, IndexFile))
    THEN Raise("FileNotFoundError")
    ELSE LET similarities == dir.files[MatrixFile].similarity[Strip(draft_text)]
             top_idx == Take(Reverse(ArgSort(similarities, ties)), k)
             index_df == dir.files[IndexFile].rows
         IN  Return([n \in 1..Len(top_idx) |->
                        [similarity |-> similarities[top_idx[n]]] @@ index_df[top_idx[n]]])

-----------------------------------------------------------------------------
(* Bounds *)

MaxRows == 3        \* rows of the retriever index
MaxK == 4           \* largest k asked of the similar-post lookup
MaxRuns == 2        \* rows the run history may hold
MaxRequests == 2    \* Predictor calls in progress at the same time
MaxFits == 2        \* fit calls on one RoleCompositionModel

\* a worker thread without a call
Idle == [pc |-> "idle"]

\* no RoleCompositionModel has been built
NoEstimator == [kind |-> "none"]

\* train_all.main has not been entered
NoTraining == [pc |-> "idle"]

\* No call is in progress and no unit-level call has been made
UnitsIdle ==
    /\ canon = NoResult
    /\ inflight = [r \in 1..MaxRequests |-> Idle]
    /\ estimator = NoEstimator
    /\ training = NoTraining

-----------------------------------------------------------------------------
(* The artifacts a training run writes (train_all.py, retriever.py) *)

NARRATIVE_LABELS == <<"toxic_culture", "burnout", "elitism", "credibility_overclaim",
                      "culture_misalignment">>

\* a metadata.json with a short list of role buckets
RoleBucketsUsed == <<"Software Engineer", "Recruiter/HR", "Other">>

MetaOK == [role_buckets |-> RoleBucketsUsed,
           narrative_labels |-> NARRATIVE_LABELS,
           narrative_threshold |-> Scale \div 2]

MetaNoBuckets == [narrative_labels |-> NARRATIVE_LABELS, narrative_threshold |-> Scale \div 2]

MetaNoLabels == [role_buckets |-> RoleBucketsUsed, narrative_labels |-> <<>>]

\* a metadata.json edited after the run: a short list of role buckets, and the
\* two thresholds set to other values
MetaEdited(narrative_threshold, narrative_share_threshold) ==
    [role_buckets |-> RoleBucketsUsed,
     narrative_labels |-> NARRATIVE_LABELS,
     narrative_threshold |-> narrative_threshold,
     narrative_share_threshold |-> narrative_share_threshold]

TunedMetas ==
    {MetaEdited(narrative_threshold, narrative_share_threshold) :
        narrative_threshold \in {Scale \div 2, (3 * Scale) \div 10, Scale \div 20},
        narrative_share_threshold \in {Scale \div 10, Scale \div 5}}

\* a fitted TfidfVectorizer: its vocabulary and the sparse row of each text
Tfidf == [feature_names |-> <<"layoffs", "excited", "team">>,
          transform |-> (TextA :> [ncols |-> 3, data |-> <<3, 2>>, indices |-> <<1, 2>>])
                        @@ (TextB :> [ncols |-> 3, data |-> <<2, 2>>, indices |-> <<2, 3>>])]

\* raw outputs of the ridge regressors per text: a distribution, one with a
\* rounding tie in the seventh decimal, one outside the simplex (negative entry),
\* one not summing to 1
RolePredictions == { <<6000000, 3000000, 1000000>>,
                     <<3333335, 3333335, 3333330>>,
                     <<2 * Scale, -Scale, 0>>,
                     <<Scale, Scale, 0>> }

\* a fitted pipeline (TF-IDF, multi-output ridge): its raw outputs per text
RolePipelineOf(predA) ==
    [predict |-> (TextA :> predA) @@ (TextB :> <<2000000, 3000000, 5000000>>),
     tfidf |-> Tfidf,
     estimators_ |-> <<[coef_ |-> <<1, 0, -1>>], [coef_ |-> <<0, 2, 1>>],
                       [coef_ |-> <<-1, -1, 0>>]>>]

\* main, lines 62-67: tfidf_params
TfidfParams ==
    [ngram_range |-> <<1, 2>>, min_df |-> 2, max_df |-> (95 * Scale) \div 100,
     max_features |-> 30000]

\* the RoleCompositionModel train_all dumps: built, then fitted
\* how Pipeline.fit ends: fitted, or raising in the vectorizer (no term is left
\* after pruning) or in the regressor, the Pipeline left unfitted
Fitted(pipeline) == [ok |-> TRUE, pipeline |-> pipeline]
FitFailed(tfidf) ==
    [ok |-> FALSE, error |-> "ValueError", pipeline |-> [kind |-> "unfitted", tfidf |-> tfidf]]

RoleModelOf(predA) ==
    fit(RoleCompositionModel(TfidfParams, NoneValue), Fitted(RolePipelineOf(predA))).self

Below == ServingThreshold - 1

\* narrative probabilities of TextA: each label just below or exactly at 0.10
NarrativeProbas == [1..5 -> {Below, ServingThreshold}]

\* the estimator OneVsRestClassifier keeps for a label that is constant in the
\* training data: it has no coef_
ConstantPredictor == [y_ |-> 0]

NarrativeModelOf(probaA) ==
    [predict_proba |-> (TextA :> probaA) @@ (TextB :> <<9 * (Scale \div 10), 0, 0, 0, 0>>),
     tfidf |-> Tfidf,
     clf |-> [estimators_ |-> <<[coef_ |-> <<1, 1, 0>>], [coef_ |-> <<0, 1, 2>>],
                               [coef_ |-> <<-2, 0, 0>>], ConstantPredictor,
                               [coef_ |-> <<1, -1, 1>>]>>]]

\* class probabilities of TextA in the order of classes_ (Harmful, Harmless, Helpful):
\* a clear winner, a tie of the two largest, and a near-uniform row
RiskProbas == { <<8000000, 1500000, 500000>>,
                <<4000000, 4000000, 2000000>>,
                <<3333333, 3333333, 3333334>> }

RiskModelOf(probaA) ==
    [classes_ |-> <<"Harmful", "Harmless", "Helpful">>,
     predict_proba |-> (TextA :> probaA) @@ (TextB :> <<1000004, 2999999, 5999997>>),
     tfidf |-> Tfidf,
     clf |-> [classes_ |-> <<"Harmful", "Harmless", "Helpful">>,
              coef_ |-> << <<2, -3, 3>>, <<0, 1, 0>>, <<-1, 0, 2>> >>]]

Companies == {"acme", "meta"}

UrlNames == <<"u1", "u2", "u3", "u4", "u5", "u6">>

\* a row of train_post_index.csv
IndexRow(n) ==
    [post_url |-> UrlNames[n], company |-> IF n % 2 = 1 THEN "acme" ELSE "globex",
     risk_class |-> IF n % 3 = 0 THEN "Harmful" ELSE "Helpful", total_comments |-> n]

SimValues == {0, Scale \div 2, Scale}

\* the retriever's matrix file for an index of n rows: the cosine similarity of
\* each text to each row
MatricesOf(n) ==
    {[similarity |-> (TextA :> simA) @@ (TextB :> [i \in 1..n |-> (i * Scale) \div (n + 1)])] :
        simA \in [1..n -> SimValues]}

IndexOf_n(n) == [rows |-> [i \in 1..n |-> IndexRow(i)]]

DefaultFiles ==
    (MetadataFile :> MetaOK)
    @@ (RoleModelFile :> RoleModelOf(<<6000000, 3000000, 1000000>>))
    @@ (NarrativeModelFile :> NarrativeModelOf([i \in 1..5 |-> Below]))
    @@ (RiskModelFile :> RiskModelOf(<<8000000, 1500000, 500000>>))
    @@ (VectorizerFile :> Tfidf)
    @@ (MatrixFile :> CHOOSE m \in MatricesOf(2) : m.similarity[TextA] = <<Scale, Scale>>)
    @@ (IndexFile :> IndexOf_n(2))

Restrict(f, keys) == [k \in (DOMAIN f) \cap keys |-> f[k]]

ModelDirPath == "output/models"

\* model directories with any subset of the files, the metadata in any of its shapes
PartialDirs ==
    {[path |-> ModelDirPath, exists |-> FALSE, files |-> <<>>]}
    \cup {[path |-> ModelDirPath, exists |-> TRUE,
           files |-> Restrict((MetadataFile :> meta) @@ DefaultFiles, present)] :
             meta \in {MetaOK, MetaNoBuckets, MetaNoLabels},
             present \in SUBSET (DOMAIN DefaultFiles)}

\* the model directories that lack at most one file
ServingDirs ==
    {d \in PartialDirs : Cardinality((DOMAIN DefaultFiles) \ (DOMAIN d.files)) <= 1}
    \cup {[path |-> ModelDirPath, exists |-> FALSE, files |-> <<>>]}

\* complete model directories without a retriever, over the fitted models
FittedDirs ==
    {[path |-> ModelDirPath, exists |-> TRUE,
      files |-> (MetadataFile :> MetaOK)
                @@ (RoleModelFile :> RoleModelOf(role))
                @@ (NarrativeModelFile :> NarrativeModelOf(narr))
                @@ (RiskModelFile :> RiskModelOf(risk))] :
        role \in RolePredictions, narr \in NarrativeProbas, risk \in RiskProbas}

\* complete model directories without a retriever, over the recorded thresholds
TunedDirs ==
    {[path |-> ModelDirPath, exists |-> TRUE,
      files |-> (MetadataFile :> meta)
                @@ (RoleModelFile :> DefaultFiles[RoleModelFile])
                @@ (NarrativeModelFile :> NarrativeModelOf(narr))
                @@ (RiskModelFile :> DefaultFiles[RiskModelFile])] :
        meta \in TunedMetas,
        narr \in {<<Below, Below, Below, Below, Below>>,
                  <<ServingThreshold, Below, Below, Below, Below>>,
                  <<Below, ServingThreshold, Below, ServingThreshold, Below>>}}

\* a metadata.json of another run: fewer role buckets than the role model has
\* estimators
MetaFewerBuckets ==
    [role_buckets |-> <<"Software Engineer", "Recruiter/HR">>,
     narrative_labels |-> NARRATIVE_LABELS,
     narrative_threshold |-> Scale \div 2]

\* a risk model fitted on labels with a class outside the expected three
RiskModelOtherClass ==
    [classes_ |-> <<"Harmful", "Harmless", "Other">>,
     predict_proba |-> (TextA :> <<2000000, 1000000, 7000000>>)
                       @@ (TextB :> <<1000004, 2999999, 5999997>>),
     tfidf |-> Tfidf,
     clf |-> [classes_ |-> <<"Harmful", "Harmless", "Other">>,
              coef_ |-> << <<2, -3, 3>>, <<0, 1, 0>>, <<-1, 0, 2>> >>]]

\* complete model directories whose files do not come from one training run
ForeignDirs ==
    {[path |-> ModelDirPath, exists |-> TRUE,
      files |-> (MetadataFile :> MetaFewerBuckets) @@ DefaultFiles],
     [path |-> ModelDirPath, exists |-> TRUE,
      files |-> (RiskModelFile :> RiskModelOtherClass) @@ DefaultFiles]}

\* complete model directories over the retriever indexes of 1..MaxRows rows
RetrieverDirs ==
    UNION {{[path |-> ModelDirPath, exists |-> TRUE,
             files |-> (MatrixFile :> m) @@ (IndexFile :> IndexOf_n(n)) @@ DefaultFiles] :
               m \in MatricesOf(n)} : n \in 1..MaxRows}

-----------------------------------------------------------------------------
(* Direct use of the Predictor class and of the retriever function *)

NoResponse == [status |-> 0]

\* The Predictor's methods are functions of the loaded object and their
\* arguments: a run constructs the object and makes one call.
Constructed == predictor.kind = "predictor" /\ result.call = "Predictor"

NoData == [kind |-> "none"]

\* Predictor(model_dir)
Construct ==
    /\ predictor.kind = "none"
    /\ result.call = "none"
    /\ LET made == PredictorInit(model_dir)
       IN  /\ predictor' = IF made.ok THEN made.value ELSE NoPredictor
           /\ result' = [call |-> "Predictor", ok |-> made.ok,
                         error |-> IF made.ok THEN "" ELSE made.error]
    /\ UNCHANGED <<model_dir, argsort_ties, started, runs, response, data_dir, bundle, unitVars>>

\* predictor.analyze(AnalyzeRequest(post_text=text))
CallAnalyze(text) ==
    /\ Constructed
    /\ LET req == AnalyzeRequest(text, "None")
           out == IF req.ok THEN analyze(predictor, req.value, argsort_ties) ELSE req
       IN  result' = [call |-> "analyze", text |-> text, out |-> out]
    /\ UNCHANGED <<model_dir, predictor, argsort_ties, started, runs, response, data_dir, bundle, unitVars>>

\* predictor.compare(baseline, variant)
CallCompare(baseline, variant) ==
    /\ Constructed
    /\ result' = [call |-> "compare", baseline |-> baseline, variant |-> variant,
                  out |-> compare(predictor, baseline, variant, argsort_ties)]
    /\ UNCHANGED <<model_dir, predictor, argsort_ties, started, runs, response, data_dir, bundle, unitVars>>

\* predictor._similar_posts(text, k)
CallSimilarPosts(text, k) ==
    /\ Constructed
    /\ result' = [call |-> "_similar_posts", text |-> text, k |-> k,
                  out |-> Return(_similar_posts(predictor, text, k, argsort_ties))]
    /\ UNCHANGED <<model_dir, predictor, argsort_ties, started, runs, response, data_dir, bundle, unitVars>>

\* get_similar_posts(draft_text, k, model_dir)
CallGetSimilarPosts(text, k) ==
    /\ model_dir.exists
    /\ result.call = "none"
    /\ result' = [call |-> "get_similar_posts", text |-> text, k |-> k,
                  out |-> get_similar_posts(text, k, model_dir, argsort_ties)]
    /\ UNCHANGED <<model_dir, predictor, argsort_ties, started, runs, response, data_dir, bundle, unitVars>>

InitPredictor ==
    /\ \/ model_dir \in PartialDirs
       \/ model_dir \in FittedDirs
       \/ model_dir \in RetrieverDirs
       \/ model_dir \in TunedDirs
       \/ model_dir \in ForeignDirs
    /\ argsort_ties \in {"asc", "desc"}
    /\ predictor = NoPredictor
    /\ result = NoResult
    /\ started = FALSE
    /\ runs = <<>>
    /\ response = NoResponse
    /\ data_dir = NoData
    /\ bundle = NoResult
    /\ UnitsIdle

NextPredictor ==
    \/ Construct
    \/ \E text \in RawTexts : CallAnalyze(text)
    \/ \E baseline \in RawTexts, variant \in RawTexts : CallCompare(baseline, variant)
    \/ \E text \in ValidTexts, k \in -1..MaxK : CallSimilarPosts(text, k)
    \/ \E text \in RawTexts, k \in -1..MaxK : CallGetSimilarPosts(text, k)

SpecPredictor == InitPredictor /\ [][NextPredictor]_vars

-----------------------------------------------------------------------------
(* services/ml_api/db.py *)

SqlNull == [null |-> TRUE]

SqlText(t) == [null |-> FALSE, text |-> t]

\* json.dumps / json.loads of a response
JsonDumps(obj) == [json |-> obj]

JsonLoads(doc) == doc.json

\* a or b, for two values that are a string or None
OrElse(a, b) == IF a = "None" \/ a = "" THEN b ELSE a

\* insert_run: one INSERT and a commit.  created_at_iso is the response's
\* meta.timestamp_iso or, when that is missing or empty, meta.timestamp; the
\* column is NOT NULL, so a response without either makes the INSERT raise and
\* nothing is stored.
insert_run(table, mode, resp, baseline_text, variant_text) ==
    LET meta == Get(resp, "meta", <<>>)
        created == OrElse(Get(meta, "timestamp_iso", "None"), Get(meta, "timestamp", "None"))
    IN  IF created = "None" THEN Raise("IntegrityError")
        ELSE Return(Append(table, [id |-> Len(table) + 1,
                                   created_at_iso |-> SqlText(created),
                                   mode |-> mode,
                                   baseline_text |-> baseline_text,
                                   variant_text |-> variant_text,
                                   response_json |-> JsonDumps(resp)]))

\* fetch_history as it would be with ORDER BY id ASC
FetchHistoryOldestFirst(table, limit) ==
    LET rows == IF limit < 0 THEN table ELSE SubSeq(table, 1, Min(limit, Len(table)))
    IN  [i \in 1..Len(rows) |->
            [id |-> rows[i].id,
             created_at_iso |-> rows[i].created_at_iso,
             mode |-> rows[i].mode,
             baseline_text |-> rows[i].baseline_text,
             variant_text |-> rows[i].variant_text,
             response |-> JsonLoads(rows[i].response_json)]]

\* fetch_history: ORDER BY id DESC LIMIT ?, each response parsed back.  A
\* negative LIMIT is no limit in SQLite.
fetch_history(table, limit) ==
    LET newest == Reverse(table)
        rows == IF limit < 0 THEN newest ELSE SubSeq(newest, 1, Min(limit, Len(newest)))
    IN  [i \in 1..Len(rows) |->
            [id |-> rows[i].id,
             created_at_iso |-> rows[i].created_at_iso,
             mode |-> rows[i].mode,
             baseline_text |-> rows[i].baseline_text,
             variant_text |-> rows[i].variant_text,
             response |-> JsonLoads(rows[i].response_json)]]

-----------------------------------------------------------------------------
(* services/ml_api/main.py *)

HttpError(req, status, detail) ==
    [request |-> req, status |-> status, body |-> [detail |-> detail]]

HttpOk(req, body) == [request |-> req, status |-> 200, body |-> body]

\* import of main.py: load_predictor() inside try/except; on any exception the
\* predictor is None, the error is logged and the app is served all the same.
LoadModule ==
    /\ ~started
    /\ LET made == load_predictor(model_dir)
       IN  predictor' = IF made.ok THEN made.value ELSE NoPredictor
    /\ started' = TRUE
    /\ UNCHANGED <<model_dir, argsort_ties, result, runs, response, data_dir, bundle, unitVars>>

\* GET /health
Health ==
    /\ started
    /\ response' = IF predictor.kind = "none"
                   THEN HttpError([op |-> "health"], 500, "Models not loaded")
                   ELSE HttpOk([op |-> "health"], [status |-> "ok", models_loaded |-> TRUE])
    /\ UNCHANGED <<model_dir, predictor, argsort_ties, result, started, runs, data_dir, bundle, unitVars>>

\* mutant: the run is recorded before the body is validated
AnalyzeRecordsFirst(text, save) ==
    /\ started
    /\ save => Len(runs) < MaxRuns
    /\ LET req == [op |-> "analyze", post_text |-> text, save |-> save]
           request == AnalyzeRequest(text, "None")
           logged == Append(runs, [id |-> Len(runs) + 1, created_at_iso |-> SqlText("now"),
                                   mode |-> "analyze", baseline_text |-> SqlText(text),
                                   variant_text |-> SqlNull,
                                   response_json |-> JsonDumps([pending |-> TRUE])])
       IN  IF ~request.ok THEN
               /\ response' = HttpError(req, 422, "Unprocessable Entity")
               /\ runs' = IF save THEN logged ELSE runs
           ELSE IF predictor.kind = "none" THEN
               /\ response' = HttpError(req, 500, "Models not loaded")
               /\ runs' = runs
           ELSE
               \E out \in {analyze(predictor, request.value, argsort_ties)} :
                   IF out.ok THEN
                       /\ response' = HttpOk(req, out.value)
                       /\ runs' = IF save THEN logged ELSE runs
                   ELSE
                       /\ response' = HttpError(req, 500, "Prediction failed")
                       /\ runs' = runs
    /\ UNCHANGED <<model_dir, predictor, argsort_ties, result, started, data_dir, bundle, unitVars>>

\* POST /analyze: the body is validated into an AnalyzeRequest before the
\* handler runs (422 otherwise)
Analyze(text, save) ==
    /\ started
    /\ save => Len(runs) < MaxRuns
    /\ LET req == [op |-> "analyze", post_text |-> text, save |-> save]
           request == AnalyzeRequest(text, "None")
       IN  IF ~request.ok THEN
               /\ response' = HttpError(req, 422, "Unprocessable Entity")
               /\ runs' = runs
           ELSE IF predictor.kind = "none" THEN
               /\ response' = HttpError(req, 500, "Models not loaded")
               /\ runs' = runs
           ELSE
               \E out \in {analyze(predictor, request.value, argsort_ties)} :
               \E stored \in {IF out.ok /\ save
                               THEN insert_run(runs, "analyze", out.value,
                                               SqlText(request.value.post_text), SqlNull)
                               ELSE Return(runs)} :
                   IF out.ok /\ stored.ok THEN
                       /\ response' = HttpOk(req, out.value)
                       /\ runs' = stored.value
                   ELSE
                       /\ response' = HttpError(req, 500, "Prediction failed")
                       /\ runs' = runs
    /\ UNCHANGED <<model_dir, predictor, argsort_ties, result, started, data_dir, bundle, unitVars>>

\* POST /analyze/compare
Compare(baseline, variant, save) ==
    /\ started
    /\ save => Len(runs) < MaxRuns
    /\ LET req == [op |-> "compare", baseline_text |-> baseline, variant_text |-> variant,
                   save |-> save]
           request == CompareRequest(baseline, variant)
       IN  IF ~request.ok THEN
               /\ response' = HttpError(req, 422, "Unprocessable Entity")
               /\ runs' = runs
           ELSE IF predictor.kind = "none" THEN
               /\ response' = HttpError(req, 500, "Models not loaded")
               /\ runs' = runs
           ELSE
               \E out \in {compare(predictor, request.value.baseline_text,
                                   request.value.variant_text, argsort_ties)} :
               \E stored \in {IF out.ok /\ save
                               THEN insert_run(runs, "compare", out.value,
                                               SqlText(request.value.baseline_text),
                                               SqlText(request.value.variant_text))
                               ELSE Return(runs)} :
                   IF out.ok /\ stored.ok THEN
                       /\ response' = HttpOk(req, out.value)
                       /\ runs' = stored.value
                   ELSE
                       /\ response' = HttpError(req, 500, "Compare failed")
                       /\ runs' = runs
    /\ UNCHANGED <<model_dir, predictor, argsort_ties, result, started, data_dir, bundle, unitVars>>

\* GET /history?limit=: limit must be within 1..200 (422 otherwise)
History(limit) ==
    /\ started
    /\ LET req == [op |-> "history", limit |-> limit]
       IN  response' = IF limit < 1 \/ limit > 200
                       THEN HttpError(req, 422, "Unprocessable Entity")
                       ELSE LET rows == fetch_history(runs, limit)
                            IN  HttpOk(req, [rows |-> rows, count |-> Len(rows)])
    /\ UNCHANGED <<model_dir, predictor, argsort_ties, result, started, runs, data_dir, bundle, unitVars>>

Init ==
    /\ model_dir \in ServingDirs
    /\ argsort_ties \in {"asc", "desc"}
    /\ predictor = NoPredictor
    /\ result = NoResult
    /\ started = FALSE
    /\ runs = <<>>
    /\ response = NoResponse
    /\ data_dir = NoData
    /\ bundle = NoResult
    /\ UnitsIdle

Next ==
    \/ LoadModule
    \/ Health
    \/ \E text \in RawTexts, save \in BOOLEAN : Analyze(text, save)
    \/ \E baseline \in RawTexts, variant \in RawTexts, save \in BOOLEAN :
          Compare(baseline, variant, save)
    \/ \E limit \in 0..(MaxRuns + 1) : History(limit)

Spec == Init /\ [][Next]_vars

-----------------------------------------------------------------------------
(* ml_training/utils.py *)

ROLE_BUCKETS ==
    <<"Founder/Executive", "Recruiter/HR", "Software Engineer", "ML/AI/Data",
      "DevOps/SRE/Cloud", "Security", "Engineering Manager/Tech Lead", "Product Manager",
      "Designer", "Sales/BD", "Marketing/Growth", "Ops", "Student/Academic", "Other">>

ROLE_MIN_COMMENTS == 15

NARRATIVE_MIN_COMMENTS == 5

NARRATIVE_THRESHOLD == Scale \div 10

\* a missing cell of a text column (pandas NaN); no text has a three-character element
NaN == <<"NaN">>

\* a missing cell of a label column: read_csv reads the cell "NaN" as missing
NaNLabel == "NaN"

AsciiLower ==
    <<"a", "b", "c", "d", "e", "f", "g", "h", "i", "j", "k", "l", "m",
      "n", "o", "p", "q", "r", "s", "t", "u", "v", "w", "x", "y", "z">>

AsciiUpper ==
    <<"A", "B", "C", "D", "E", "F", "G", "H", "I", "J", "K", "L", "M",
      "N", "O", "P", "Q", "R", "S", "T", "U", "V", "W", "X", "Y", "Z">>

\* the upper-case letters of U+00C0..U+00DE (str.isupper)
Latin1Upper ==
    <<"À", "Á", "Â", "Ã", "Ä", "Å", "Æ", "Ç", "È", "É", "Ê", "Ë", "Ì", "Í", "Î",
      "Ï", "Ð", "Ñ", "Ò", "Ó", "Ô", "Õ", "Ö", "Ø", "Ù", "Ú", "Û", "Ü", "Ý", "Þ">>

\* their lower case (str.lower), position by position
Latin1Lower ==
    <<"à", "á", "â", "ã", "ä", "å", "æ", "ç", "è", "é", "ê", "ë", "ì", "í", "î",
      "ï", "ð", "ñ", "ò", "ó", "ô", "õ", "ö", "ø", "ù", "ú", "û", "ü", "ý", "þ">>

UpperLetters == AsciiUpper \o Latin1Upper \o <<"Μ">>

LowerLetters == AsciiLower \o Latin1Lower \o <<"μ">>

\* str.isascii() and str.isalpha(), on one character
IsAlpha(c) == InSeq(AsciiLower, c) \/ InSeq(AsciiUpper, c)

\* the cased characters of U+0001..U+00FE: the letters above, and ª, µ, º and
\* ß, which are lower case and have no upper case there. The texts of the model are
\* written in U+0001..U+00FE and the spaces of IsSpace; ÿ (U+00FF) is left out, its
\* title case U+0178 cannot be written in a string here. Μ (U+039C) is the title case
\* of µ and μ (U+03BC) its lower case.
IsCased(c) ==
    InSeq(LowerLetters, c) \/ InSeq(UpperLetters, c) \/ c \in {"ª", "µ", "º", "ß"}

\* str.lower() of one character
LowerChar(c) == IF InSeq(UpperLetters, c) THEN LowerLetters[IndexOf(UpperLetters, c)] ELSE c

\* the title case of one character: ß becomes Ss
TitleChar(c) ==
    IF c = "ß" THEN <<"S", "s">>
    ELSE IF c = "µ" THEN <<"Μ">>
    ELSE IF InSeq(LowerLetters, c) THEN <<UpperLetters[IndexOf(LowerLetters, c)]>>
    ELSE <<c>>

\* str.lower()
Lower(s) == [i \in 1..Len(s) |-> LowerChar(s[i])]

\* str.title(): a character is title-cased when no cased character precedes it,
\* lower-cased otherwise
Title(s) ==
    Flatten([i \in 1..Len(s) |->
        IF i > 1 /\ IsCased(s[i - 1]) THEN <<LowerChar(s[i])>> ELSE TitleChar(s[i])])

\* str.find(c): the first position of c, counted from 1; 0 when absent
Find(s, c) ==
    IF InSeq(s, c) THEN IndexOf(s, c) ELSE 0

\* str.rstrip("/")
RECURSIVE RStripSlash(_)
RStripSlash(s) ==
    IF Len(s) > 0 /\ s[Len(s)] = "/" THEN RStripSlash(SubSeq(s, 1, Len(s) - 1)) ELSE s

\* urllib.parse.scheme_chars
scheme_chars ==
    {AsciiLower[i] : i \in 1..26} \cup {AsciiUpper[i] : i \in 1..26}
    \cup {"0", "1", "2", "3", "4", "5", "6", "7", "8", "9", "+", "-", "."}

\* urllib.parse.uses_netloc
uses_netloc ==
    {<<>>,
     <<"f", "t", "p">>,
     <<"h", "t", "t", "p">>,
     <<"g", "o", "p", "h", "e", "r">>,
     <<"n", "n", "t", "p">>,
     <<"t", "e", "l", "n", "e", "t">>,
     <<"i", "m", "a", "p">>,
     <<"w", "a", "i", "s">>,
     <<"f", "i", "l", "e">>,
     <<"m", "m", "s">>,
     <<"h", "t", "t", "p", "s">>,
     <<"s", "h", "t", "t", "p">>,
     <<"s", "n", "e", "w", "s">>,
     <<"p", "r", "o", "s", "p", "e", "r", "o">>,
     <<"r", "t", "s", "p">>,
     <<"r", "t", "s", "p", "s">>,
     <<"r", "t", "s", "p", "u">>,
     <<"r", "s", "y", "n", "c">>,
     <<"s", "v", "n">>,
     <<"s", "v", "n", "+", "s", "s", "h">>,
     <<"s", "f", "t", "p">>,
     <<"n", "f", "s">>,
     <<"g", "i", "t">>,
     <<"g", "i", "t", "+", "s", "s", "h">>,
     <<"w", "s">>,
     <<"w", "s", "s">>}

\* str.split(sep) for a separator of one character
RECURSIVE Split(_, _)
Split(s, sep) ==
    IF ~InSeq(s, sep) THEN <<s>>
    ELSE <<SubSeq(s, 1, IndexOf(s, sep) - 1)>>
         \o Split(SubSeq(s, IndexOf(s, sep) + 1, Len(s)), sep)

DecimalDigits == <<"0", "1", "2", "3", "4", "5", "6", "7", "8", "9">>

\* int(s, 10) of a string of decimal digits
RECURSIVE DecimalValue(_)
DecimalValue(s) ==
    IF Len(s) = 0 THEN 0
    ELSE 10 * DecimalValue(SubSeq(s, 1, Len(s) - 1)) + IndexOf(DecimalDigits, s[Len(s)]) - 1

\* ipaddress._BaseV6._HEX_DIGITS
_HEX_DIGITS ==
    {DecimalDigits[i] : i \in 1..10}
    \cup {"a", "b", "c", "d", "e", "f", "A", "B", "C", "D", "E", "F"}

\* ipaddress._BaseV4._parse_octet returns: one to three decimal digits without a
\* leading zero, at most 255
ParsesAsOctet(octet_str) ==
    /\ Len(octet_str) \in 1..3
    /\ \A i \in 1..Len(octet_str) : InSeq(DecimalDigits, octet_str[i])
    /\ (octet_str = <<"0">> \/ octet_str[1] # "0")
    /\ DecimalValue(octet_str) <= 255

\* ipaddress.IPv4Address(address) returns: four octets separated by "."
ParsesAsIPv4(address) ==
    /\ ~InSeq(address, "/")
    /\ Len(address) > 0
    /\ \E octets \in {Split(address, ".")} :
          Len(octets) = 4 /\ \A i \in 1..4 : ParsesAsOctet(octets[i])

\* ipaddress._BaseV6._parse_hextet returns: one to four hexadecimal digits
ParsesAsHextet(hextet_str) ==
    /\ Len(hextet_str) \in 1..4
    /\ \A i \in 1..Len(hextet_str) : hextet_str[i] \in _HEX_DIGITS

\* ipaddress._BaseV6._ip_int_from_string returns. An IPv4 suffix is replaced by
\* the two hextets it converts to, which parse whatever the address; an empty part
\* between the ends stands for "::", may occur once and may touch an end only as a
\* leading or trailing "::"
ParsesAsHextets(ip_str, split) ==
    LET has_ipv4 == Len(split) >= 3 /\ InSeq(split[Len(split)], ".")
        parts == IF has_ipv4
                 THEN SubSeq(split, 1, Len(split) - 1) \o <<<<"0">>, <<"0">>>>
                 ELSE split
        skips == {i \in 2..(Len(parts) - 1) : Len(parts[i]) = 0}
        skip_index == CHOOSE i \in skips : TRUE
        parts_hi == IF Len(parts[1]) = 0 THEN skip_index - 2 ELSE skip_index - 1
        parts_lo == IF Len(parts[Len(parts)]) = 0 THEN Len(parts) - skip_index - 1
                    ELSE Len(parts) - skip_index
    IN  /\ Len(ip_str) > 0
        /\ Len(split) >= 3
        /\ has_ipv4 => ParsesAsIPv4(split[Len(split)])
        /\ Len(parts) <= 9
        /\ Cardinality(skips) <= 1
        /\ IF skips # {}
           THEN /\ Len(parts[1]) = 0 => parts_hi = 0
                /\ Len(parts[Len(parts)]) = 0 => parts_lo = 0
                /\ 8 - (parts_hi + parts_lo) >= 1
                /\ \A i \in 1..parts_hi : ParsesAsHextet(parts[i])
                /\ \A i \in (Len(parts) - parts_lo + 1)..Len(parts) : ParsesAsHextet(parts[i])
           ELSE /\ Len(parts) = 8
                /\ \A i \in 1..8 : ParsesAsHextet(parts[i])

\* ipaddress.IPv6Address(address) returns: a scope id after "%" is not empty and
\* holds no "%"
ParsesAsIPv6(address) ==
    LET has_scope == InSeq(address, "%")
        addr_str == IF has_scope THEN SubSeq(address, 1, IndexOf(address, "%") - 1)
                    ELSE address
        scope_id == IF has_scope THEN SubSeq(address, IndexOf(address, "%") + 1, Len(address))
                    ELSE <<>>
    IN  /\ ~InSeq(address, "/")
        /\ has_scope => Len(scope_id) > 0 /\ ~InSeq(scope_id, "%")
        /\ ParsesAsHextets(addr_str, Split(addr_str, ":"))

\* re.match(r"\Av[a-fA-F0-9]+\..+\Z", hostname)
MatchesIPvFuture(hostname) ==
    \E k \in 2..(Len(hostname) - 2) :
        /\ hostname[1] = "v"
        /\ \A i \in 2..k : hostname[i] \in _HEX_DIGITS
        /\ hostname[k + 1] = "."
        /\ \A i \in (k + 2)..Len(hostname) : hostname[i] # "\n"

\* urllib.parse._check_bracketed_host: an IPvFuture address when the host starts
\* with "v", an IPv6 address otherwise; an IPv4 address is not allowed in brackets
_check_bracketed_host(hostname) ==
    IF Len(hostname) > 0 /\ hostname[1] = "v"
    THEN IF MatchesIPvFuture(hostname) THEN ReturnNone ELSE Raise("ValueError")
    ELSE IF ParsesAsIPv4(hostname) THEN Raise("ValueError")
    ELSE IF ParsesAsIPv6(hostname) THEN ReturnNone
    ELSE Raise("ValueError")

\* netloc.partition("[")[2].partition("]")[0]
BracketedHost(netloc) ==
    LET after == SubSeq(netloc, IndexOf(netloc, "[") + 1, Len(netloc))
    IN  IF InSeq(after, "]") THEN SubSeq(after, 1, IndexOf(after, "]") - 1) ELSE after

\* urlsplit, last step: fragment and query are cut off the path
SplitPath(scheme, netloc, after) ==
    LET h == Find(after, "#")
        before_fragment == IF h > 0 THEN SubSeq(after, 1, h - 1) ELSE after
        q == Find(before_fragment, "?")
    IN  Return([scheme |-> scheme,
                netloc |-> netloc,
                path |-> IF q > 0 THEN SubSeq(before_fragment, 1, q - 1)
                         ELSE before_fragment,
                query |-> IF q > 0
                          THEN SubSeq(before_fragment, q + 1, Len(before_fragment))
                          ELSE <<>>,
                fragment |-> IF h > 0 THEN SubSeq(after, h + 1, Len(after)) ELSE <<>>])

\* urlsplit, second step: after "//" the netloc runs up to the first of "/", "?", "#";
\* a netloc with one kind of bracket only, or with a bracketed host that is not an
\* address, raises ValueError
SplitNetloc(scheme, rest) ==
    LET has_netloc == Len(rest) >= 2 /\ rest[1] = "/" /\ rest[2] = "/"
        delims == {j \in 3..Len(rest) : rest[j] \in {"/", "?", "#"}}
        delim == IF delims = {} THEN Len(rest) + 1
                 ELSE CHOOSE j \in delims : \A k \in delims : j <= k
        netloc == SubSeq(rest, 3, delim - 1)
    IN  IF ~has_netloc THEN SplitPath(scheme, <<>>, rest)
        ELSE IF InSeq(netloc, "[") # InSeq(netloc, "]") THEN Raise("ValueError")
        ELSE IF InSeq(netloc, "[") /\ ~_check_bracketed_host(BracketedHost(netloc)).ok
        THEN Raise("ValueError")
        ELSE SplitPath(scheme, netloc, SubSeq(rest, delim, Len(rest)))

\* urlsplit, first step: a leading run of scheme characters that starts with a
\* letter and ends at the first ":" is the scheme, lower-cased
SplitScheme(cleaned) ==
    LET i == Find(cleaned, ":")
        has_scheme ==
            /\ i > 1
            /\ IsAlpha(cleaned[1])
            /\ \A j \in 1..(i - 1) : cleaned[j] \in scheme_chars
    IN  IF has_scheme
        THEN SplitNetloc(Lower(SubSeq(cleaned, 1, i - 1)), SubSeq(cleaned, i + 1, Len(cleaned)))
        ELSE SplitNetloc(<<>>, cleaned)

\* urllib.parse._WHATWG_C0_CONTROL_OR_SPACE, without U+0000, which cannot be
\* written in a string here
_WHATWG_C0_CONTROL_OR_SPACE ==
    {" ", "\t", "\n", "\r", "\f", "", "", "", "", "", "", "", "",
     "", "", "", "", "", "", "", "", "", "", "", "", "", "",
     "", "", "", "", ""}

\* url.lstrip(_WHATWG_C0_CONTROL_OR_SPACE)
RECURSIVE LStripC0(_)
LStripC0(url) ==
    IF Len(url) > 0 /\ Head(url) \in _WHATWG_C0_CONTROL_OR_SPACE THEN LStripC0(Tail(url))
    ELSE url

\* urllib.parse.urlsplit (CPython 3.11): leading C0 control characters and spaces
\* are stripped, tab and newline characters are removed, then scheme, netloc, path,
\* query and fragment are cut out. _checknetloc, the last step, raises for a netloc
\* character whose NFKC form holds one of "/?#@:"; no character that can be written
\* in a string here has such a form.
urlsplit(url) ==
    CHOOSE parts \in
        {SplitScheme(cleaned) :
            cleaned \in {SelectSeq(LStripC0(url), LAMBDA c : c \notin {"\t", "\r", "\n"})}} : TRUE

\* urllib.parse.urlunsplit
urlunsplit(scheme, netloc, path, query, fragment) ==
    LET with_netloc ==
            IF \/ Len(netloc) > 0
               \/ /\ Len(scheme) > 0
                  /\ scheme \in uses_netloc
                  /\ SubSeq(path, 1, Min(2, Len(path))) # <<"/", "/">>
            THEN <<"/", "/">> \o netloc
                 \o (IF Len(path) > 0 /\ path[1] # "/" THEN <<"/">> \o path ELSE path)
            ELSE path
        with_scheme == IF Len(scheme) > 0 THEN scheme \o <<":">> \o with_netloc ELSE with_netloc
        with_query == IF Len(query) > 0 THEN with_scheme \o <<"?">> \o query ELSE with_scheme
    IN  IF Len(fragment) > 0 THEN with_query \o <<"#">> \o fragment ELSE with_query

\* canonicalize_url as it would be if the query string were kept
CanonicalizeKeepingQuery(url) ==
    IF url = NaN THEN Return(<<>>)
    ELSE IF Len(Strip(url)) = 0 THEN Return(<<>>)
    ELSE CHOOSE out \in
            {IF ~parts.ok THEN parts
             ELSE Return(urlunsplit(parts.value.scheme, Lower(parts.value.netloc),
                                    RStripSlash(parts.value.path), parts.value.query, <<>>)) :
                parts \in {urlsplit(Strip(url))}} : TRUE

\* canonicalize_url: the empty string for a missing or blank URL, otherwise the URL
\* without query and fragment, its host lower-cased, its path without trailing "/"
canonicalize_url(url) ==
    IF url = NaN THEN Return(<<>>)
    ELSE IF Len(Strip(url)) = 0 THEN Return(<<>>)
    ELSE CHOOSE out \in
            {IF ~parts.ok THEN parts
             ELSE Return(urlunsplit(parts.value.scheme, Lower(parts.value.netloc),
                                    RStripSlash(parts.value.path), <<>>, <<>>)) :
                parts \in {urlsplit(Strip(url))}} : TRUE

\* ensure_columns
ensure_columns(df, required) ==
    IF required \subseteq df.columns THEN Return(df) ELSE Raise("ValueError")

\* Series.astype(str) on one cell of a text column
AsStr(cell) == IF cell = NaN THEN <<"n", "a", "n">> ELSE cell

\* drop_empty_text: the rows whose text, as a string, is not blank
drop_empty_text(rows, text_col) ==
    SelectSeq(rows, LAMBDA r : Len(Strip(AsStr(r[text_col]))) # 0)

-----------------------------------------------------------------------------
(* ml_training/data_loader.py *)

POST_REQUIRED_COLUMNS ==
    {"post_url", "post_text", "posted_at", "likes", "total_comments", "risk_level",
     "risk_class", "risk_score", "risk_reasons", "risk_level_full",
     "risk_class_full", "risk_score_full", "risk_reasons_full", "pct_negative",
     "pct_negative_engineer", "pct_toxic_burnout", "pct_critical_hostile",
     "pct_supportive", "pct_negative_full", "pct_negative_engineer_full",
     "pct_toxic_burnout_full", "pct_critical_hostile_full", "pct_supportive_full"}

COMMENT_REQUIRED_COLUMNS ==
    {"post_url", "comment_text", "author_headline", "role_bucket", "sentiment", "tone",
     "narrative"}

\* the company names in sorted order
CompanyNames == <<"acme", "globex", "meta">>

Range(s) == {s[i] : i \in 1..Len(s)}

KeyOf(r) == <<r.company, r.post_url_clean>>

\* discover_companies: the companies that have a posts file, sorted
discover_companies(dir) ==
    IF DOMAIN dir.posts = {} THEN Raise("FileNotFoundError")
    ELSE Return(SelectSeq(CompanyNames, LAMBDA c : c \in DOMAIN dir.posts))

\* df["company"] = company; df["post_url_clean"] = df["post_url"].apply(canonicalize_url)
\* (the URLs all canonicalize)
WithCleanUrl(rows, company) ==
    [i \in 1..Len(rows) |->
        rows[i] @@ [company |-> company,
                    post_url_clean |-> canonicalize_url(rows[i].post_url).value]]

\* the duplicate check switched off
AssertUniquePostsSkipped(df, company) == Return(df)

\* _assert_unique_posts
_assert_unique_posts(df, company) ==
    IF \E i, j \in 1..Len(df) : i # j /\ KeyOf(df[i]) = KeyOf(df[j])
    THEN Raise("ValueError")
    ELSE Return(df)

\* _load_posts
_load_posts(dir, company) ==
    IF company \notin DOMAIN dir.posts THEN Raise("FileNotFoundError")
    ELSE IF ~ensure_columns(dir.posts[company], POST_REQUIRED_COLUMNS).ok
    THEN Raise("ValueError")
    ELSE IF \E r \in Range(dir.posts[company].rows) : ~canonicalize_url(r.post_url).ok
    THEN Raise("ValueError")
    ELSE CHOOSE out \in
            {_assert_unique_posts(df, company) :
                df \in {drop_empty_text(
                           SelectSeq(WithCleanUrl(dir.posts[company].rows, company),
                                     LAMBDA r : r.post_url_clean # <<>>),
                           "post_text")}} : TRUE

\* _load_comments_full
_load_comments_full(dir, company) ==
    IF company \notin DOMAIN dir.comments THEN Raise("FileNotFoundError")
    ELSE IF ~ensure_columns(dir.comments[company], COMMENT_REQUIRED_COLUMNS).ok
    THEN Raise("ValueError")
    ELSE IF \E r \in Range(dir.comments[company].rows) : ~canonicalize_url(r.post_url).ok
    THEN Raise("ValueError")
    ELSE Return(SelectSeq(WithCleanUrl(dir.comments[company].rows, company),
                          LAMBDA r : r.post_url_clean # <<>>))

\* the shares with the comments of a missing or unknown bucket counted in the
\* totals only
RoleDistributionDroppingUnknown(comments_df) ==
    LET keys == {KeyOf(r) : r \in Range(comments_df)}
        count(key, b) == Len(SelectSeq(comments_df, LAMBDA r : KeyOf(r) = key /\ r.role_bucket = b))
        total(key) == Len(SelectSeq(comments_df, LAMBDA r : KeyOf(r) = key))
    IN  [key \in keys |->
            [b \in Range(ROLE_BUCKETS) |-> (count(key, b) * Scale) \div total(key)]]

\* _compute_role_distribution: per commented post, the share of each role bucket
\* among its comments; a missing or unknown bucket counts as "Other"
_compute_role_distribution(comments_df) ==
    LET bucket_of(r) ==
            IF r.role_bucket = NaNLabel \/ ~InSeq(ROLE_BUCKETS, r.role_bucket)
            THEN "Other" ELSE r.role_bucket
        keys == {KeyOf(r) : r \in Range(comments_df)}
        count(key, b) == Len(SelectSeq(comments_df, LAMBDA r : KeyOf(r) = key /\ bucket_of(r) = b))
        total(key) == Len(SelectSeq(comments_df, LAMBDA r : KeyOf(r) = key))
    IN  [key \in keys |->
            [b \in Range(ROLE_BUCKETS) |-> (count(key, b) * Scale) \div total(key)]]

\* _compute_narrative_flags: (flags per post, used_comments).  With comments, a
\* label is flagged when its share among all the post's comments reaches the
\* threshold; without any comment, the post-level proxy decides.
_compute_narrative_flags(posts_df, comments_df) ==
    IF Len(comments_df) > 0
    THEN LET keys == {KeyOf(r) : r \in Range(comments_df)}
             count(key, l) == Len(SelectSeq(comments_df, LAMBDA r : KeyOf(r) = key /\ r.narrative = l))
             denom(key) == Len(SelectSeq(comments_df, LAMBDA r : KeyOf(r) = key))
         IN  [flags |-> [key \in keys |->
                           [l \in Range(NARRATIVE_LABELS) |->
                               IF (count(key, l) * Scale) \div denom(key) >= NARRATIVE_THRESHOLD
                               THEN 1 ELSE 0]],
              used_comments |-> TRUE]
    ELSE LET proxy(key) == (CHOOSE r \in Range(posts_df) : KeyOf(r) = key).pct_toxic_burnout
         IN  [flags |-> [key \in {KeyOf(r) : r \in Range(posts_df)} |->
                           [l \in Range(NARRATIVE_LABELS) |->
                               IF l \in {"toxic_culture", "burnout"}
                                  /\ proxy(key) >= NARRATIVE_THRESHOLD
                               THEN 1 ELSE 0]],
              used_comments |-> FALSE]

\* _normalize_risk_class on a column: every cell trimmed and title-cased, a blank
\* cell missing.  Series.replace("", np.nan) turns a column that has rows and
\* whose cells are all blank into a float column (pandas before 3.0), and the
\* .str accessor of the last line raises AttributeError on it.
_normalize_risk_class(series) ==
    LET cleaned == [i \in 1..Len(series) |->
                       Strip(IF series[i] = NaN THEN <<>> ELSE series[i])]
    IN  IF Len(cleaned) > 0 /\ \A i \in 1..Len(cleaned) : Len(cleaned[i]) = 0
        THEN Raise("AttributeError")
        ELSE Return([i \in 1..Len(cleaned) |->
                        IF Len(cleaned[i]) = 0 THEN NaN ELSE Title(cleaned[i])])

\* the task counts per company, for the companies that have a row
GroupSizes(rows) ==
    [c \in {r.company : r \in Range(rows)} |-> Len(SelectSeq(rows, LAMBDA r : r.company = c))]

\* the manifest counting every row as a training row
ManifestCountsAllTrain(df, holdout_company) ==
    [train |-> GroupSizes(df),
     test |-> GroupSizes(SelectSeq(df, LAMBDA r : r.company = holdout_company))]

\* _manifest_counts
_manifest_counts(df, holdout_company) ==
    [train |-> GroupSizes(SelectSeq(df, LAMBDA r : r.company # holdout_company)),
     test |-> GroupSizes(SelectSeq(df, LAMBDA r : r.company = holdout_company))]

\* load_datasets, lines 190-199: the posts and comments of every company, in order
RECURSIVE LoadFrames(_, _)
LoadFrames(dir, companies) ==
    IF Len(companies) = 0 THEN Return([posts |-> <<>>, comments |-> <<>>])
    ELSE CHOOSE out \in
            {IF ~posts.ok THEN posts
             ELSE IF ~comments.ok THEN comments
             ELSE IF ~others.ok THEN others
             ELSE Return([posts |-> posts.value \o others.value.posts,
                          comments |-> comments.value \o others.value.comments]) :
                posts \in {_load_posts(dir, Head(companies))},
                comments \in {_load_comments_full(dir, Head(companies))},
                others \in {LoadFrames(dir, Tail(companies))}} : TRUE

\* load_datasets, lines 201-221: the posts with their role shares, narrative flags
\* and risk class target; posts without a risk class are dropped.  The column
\* risk_class_full is normalized first, then risk_class; either call may raise.
MergeTargets(posts_df, comments_df) ==
    CHOOSE out \in
        {IF ~full.ok THEN full
         ELSE IF ~partial.ok THEN partial
         ELSE Return(SelectSeq(
            [i \in 1..Len(posts_df) |->
                posts_df[i]
                @@ [roles |-> IF KeyOf(posts_df[i]) \in DOMAIN role_pct
                              THEN role_pct[KeyOf(posts_df[i])]
                              ELSE [b \in Range(ROLE_BUCKETS) |-> 0],
                    flags |-> IF KeyOf(posts_df[i]) \in DOMAIN narrative_flags
                              THEN narrative_flags[KeyOf(posts_df[i])]
                              ELSE [l \in Range(NARRATIVE_LABELS) |-> 0],
                    risk_class_target |->
                        IF full.value[i] # NaN THEN full.value[i] ELSE partial.value[i]]],
            LAMBDA r : r.risk_class_target # NaN)) :
          role_pct \in {_compute_role_distribution(comments_df)},
          narrative_flags \in {_compute_narrative_flags(posts_df, comments_df).flags},
          full \in {_normalize_risk_class(
                       [i \in 1..Len(posts_df) |-> posts_df[i].risk_class_full])},
          partial \in {_normalize_risk_class(
                          [i \in 1..Len(posts_df) |-> posts_df[i].risk_class])}} : TRUE

\* the split with the retriever built over the posts of every company
SplitDatasetsRetrieverAll(merged, holdout_company) ==
    LET role_df == SelectSeq(merged, LAMBDA r : r.total_comments >= ROLE_MIN_COMMENTS)
        narrative_df == SelectSeq(merged, LAMBDA r : r.total_comments >= NARRATIVE_MIN_COMMENTS)
        risk_df == merged
        train(df) == SelectSeq(df, LAMBDA r : r.company # holdout_company)
        test(df) == SelectSeq(df, LAMBDA r : r.company = holdout_company)
    IN  [role_train |-> train(role_df),
         role_test |-> test(role_df),
         narrative_train |-> train(narrative_df),
         narrative_test |-> test(narrative_df),
         risk_train |-> train(risk_df),
         risk_test |-> test(risk_df),
         retriever_train_posts |-> merged,
         split_manifest |->
            [role |-> _manifest_counts(role_df, holdout_company),
             narrative |-> _manifest_counts(narrative_df, holdout_company),
             risk |-> _manifest_counts(risk_df, holdout_company)],
         holdout_company |-> holdout_company]

\* load_datasets, lines 226-256: the task frames split by company, and the manifest
SplitDatasets(merged, holdout_company) ==
    LET role_df == SelectSeq(merged, LAMBDA r : r.total_comments >= ROLE_MIN_COMMENTS)
        narrative_df == SelectSeq(merged, LAMBDA r : r.total_comments >= NARRATIVE_MIN_COMMENTS)
        risk_df == merged
        train(df) == SelectSeq(df, LAMBDA r : r.company # holdout_company)
        test(df) == SelectSeq(df, LAMBDA r : r.company = holdout_company)
    IN  [role_train |-> train(role_df),
         role_test |-> test(role_df),
         narrative_train |-> train(narrative_df),
         narrative_test |-> test(narrative_df),
         risk_train |-> train(risk_df),
         risk_test |-> test(risk_df),
         retriever_train_posts |-> train(merged),
         split_manifest |->
            [role |-> _manifest_counts(role_df, holdout_company),
             narrative |-> _manifest_counts(narrative_df, holdout_company),
             risk |-> _manifest_counts(risk_df, holdout_company)],
         holdout_company |-> holdout_company]

\* load_datasets, lines 201-224: merge and the final uniqueness check
MergeChecked(frames) ==
    CHOOSE out \in
        {IF ~merged.ok THEN merged
         ELSE _assert_unique_posts(merged.value, "all_companies") :
            merged \in {MergeTargets(frames.posts, frames.comments)}} : TRUE

\* load_datasets
load_datasets(dir, holdout_company) ==
    IF ~discover_companies(dir).ok THEN discover_companies(dir)
    ELSE IF ~InSeq(discover_companies(dir).value, holdout_company) THEN Raise("ValueError")
    ELSE CHOOSE out \in
            {IF ~frames.ok THEN frames
             ELSE (CHOOSE bundled \in
                      {IF ~checked.ok THEN checked
                       ELSE Return(SplitDatasets(checked.value, holdout_company)) :
                          checked \in {MergeChecked(frames.value)}} : TRUE) :
                frames \in {LoadFrames(dir, discover_companies(dir).value)}} : TRUE

\* load_datasets, lines 202-204: the warnings the call logs before it merges; the
\* narrative fallback is reported when no company has a usable comment
LoggedWarnings(dir, holdout_company) ==
    IF ~discover_companies(dir).ok THEN <<>>
    ELSE IF ~InSeq(discover_companies(dir).value, holdout_company) THEN <<>>
    ELSE CHOOSE log \in
            {IF ~frames.ok THEN <<>>
             ELSE IF _compute_narrative_flags(frames.value.posts,
                                              frames.value.comments).used_comments
             THEN <<>> ELSE <<"narrative_fallback">> :
                frames \in {LoadFrames(dir, discover_companies(dir).value)}} : TRUE

-----------------------------------------------------------------------------
(* Training data and runs of the loader *)

MaxPosts == 2

UrlP == <<"w", "s", ":", "/", "/", "a", "/", "p">>
UrlPVariant == <<" ", "W", "S", ":", "/", "/", "A", "/", "p", "/">>
UrlPQuery == <<"w", "s", ":", "/", "/", "a", "/", "p", "?", "s", "#", "f">>
UrlS == <<"w", "s", ":", "/", "/", "a", "/", "s">>
UrlBracket == <<"w", "s", ":", "/", "/", "[", "a">>
UrlIPv6 == <<"W", "s", ":", "/", "/", "[", ":", ":", "A", "]", "/", "p", "/">>
UrlIPv4 == <<"/", "/", "[", "1", ".", "2", ".", "3", ".", "4", "]">>
UrlIPvFuture == <<"/", "/", "[", "v", "1", ".", "A", "]", "?", "s">>
UrlLatin1 == <<"w", "s", ":", "/", "/", "É", "/", "ß">>

PostRow(url, text, comments, class, class_full, proxy) ==
    [post_url |-> url, post_text |-> text, total_comments |-> comments,
     risk_class |-> class, risk_class_full |-> class_full, pct_toxic_burnout |-> proxy]

\* rows of a posts file: a well-commented post with both labels, the same post
\* under another spelling of its URL with the partial label only, a blank text
\* under that URL again, a post without a risk class, a row without URL, a URL
\* that does not parse, and a post with few comments and the full label only
PostRows ==
    {PostRow(UrlP, TextA, 20, <<"o", "k">>, <<"h", "a">>, 0),
     PostRow(UrlPVariant, TextB, 5, <<" ", "H", "A">>, NaN, NARRATIVE_THRESHOLD),
     PostRow(UrlPQuery, <<" ">>, 15, <<"o", "k">>, NaN, 0),
     PostRow(UrlS, NaN, 4, NaN, <<" ">>, 0),
     PostRow(NaN, TextA, 15, <<"o", "k">>, NaN, 0),
     PostRow(UrlBracket, TextA, 15, <<"o", "k">>, NaN, 0),
     PostRow(UrlPQuery, TextB, NARRATIVE_MIN_COMMENTS, NaN, <<"H", "a", " ">>, 0)}

RECURSIVE SeqsUpTo(_, _)
SeqsUpTo(S, n) ==
    IF n = 0 THEN {<<>>}
    ELSE LET shorter == SeqsUpTo(S, n - 1)
         IN  shorter \cup {Append(s, x) : s \in {t \in shorter : Len(t) = n - 1}, x \in S}

PostsFile(rows) == [columns |-> POST_REQUIRED_COLUMNS, rows |-> rows]

CommentRow(url, role, narrative) == [post_url |-> url, role_bucket |-> role, narrative |-> narrative]

CommentsFile(rows) == [columns |-> COMMENT_REQUIRED_COLUMNS, rows |-> rows]

\* the posts files of the second company: a post under the first company's URL,
\* posts that no task keeps, a file without the text column
OtherPostsFiles ==
    {PostsFile(<<>>),
     PostsFile(<<PostRow(UrlP, TextB, 15, <<"o", "k">>, NaN, NARRATIVE_THRESHOLD)>>),
     PostsFile(<<PostRow(UrlS, TextA, 4, <<"o", "k">>, NaN, 0)>>),
     [columns |-> POST_REQUIRED_COLUMNS \ {"post_text"}, rows |-> <<>>]}

CommentsFiles ==
    {CommentsFile(<<>>),
     CommentsFile(<<CommentRow(UrlPQuery, "Software Engineer", "burnout"),
                    CommentRow(UrlP, NaNLabel, NaNLabel),
                    CommentRow(UrlPVariant, "Wizard", "praise")>>)}

\* the files of the third company, when it has any: one well-commented post with
\* both labels, and no comment
ThirdCompanyFiles ==
    [posts |-> ("globex" :> PostsFile(<<PostRow(UrlS, TextA, 20, <<"o", "k">>, <<"h", "a">>, 0)>>)),
     comments |-> ("globex" :> CommentsFile(<<>>))]

\* data directories: the first company's posts file holds up to MaxPosts rows; the
\* files of the second and of the third company may be absent
DataDirs ==
    {[posts |-> ("acme" :> PostsFile(rows)) @@ other_posts @@ third.posts,
      comments |-> ("acme" :> acme_comments) @@ other_comments @@ third.comments] :
        rows \in SeqsUpTo(PostRows, MaxPosts),
        other_posts \in {<<>>} \cup {("meta" :> f) : f \in OtherPostsFiles},
        acme_comments \in CommentsFiles,
        other_comments \in {<<>>, ("meta" :> CommentsFile(<<>>))},
        third \in {[posts |-> <<>>, comments |-> <<>>], ThirdCompanyFiles}}

\* load_datasets(data_dir, holdout_company)
LoadDatasets(holdout_company) ==
    /\ data_dir # NoData
    /\ bundle.call = "none"
    /\ bundle' = [call |-> "load_datasets", holdout_company |-> holdout_company,
                  out |-> load_datasets(data_dir, holdout_company),
                  warnings |-> LoggedWarnings(data_dir, holdout_company)]
    /\ UNCHANGED <<servingVars, data_dir, unitVars>>

\* _load_posts(data_dir, company)
LoadPosts(company) ==
    /\ data_dir # NoData
    /\ bundle.call = "none"
    /\ bundle' = [call |-> "_load_posts", company |-> company,
                  out |-> _load_posts(data_dir, company)]
    /\ UNCHANGED <<servingVars, data_dir, unitVars>>

InitLoad ==
    /\ data_dir \in DataDirs
    /\ bundle = NoResult
    /\ model_dir = [path |-> ModelDirPath, exists |-> FALSE, files |-> <<>>]
    /\ argsort_ties = "asc"
    /\ predictor = NoPredictor
    /\ result = NoResult
    /\ started = FALSE
    /\ runs = <<>>
    /\ response = NoResponse
    /\ UnitsIdle

NextLoad ==
    \/ \E holdout_company \in Range(CompanyNames) : LoadDatasets(holdout_company)
    \/ \E company \in Range(CompanyNames) : LoadPosts(company)

SpecLoad == InitLoad /\ [][NextLoad]_vars

-----------------------------------------------------------------------------
(* Calls of canonicalize_url on its own *)

MaxUrlLen == 5

\* The characters the short inputs are drawn from: the scheme letter "s", an
\* upper-case letter, delimiters of urlsplit, and white space
UrlChars == {"s", "A", ":", "/", "?", " "}

\* Inputs with the scheme "ws" (one that uses a netloc), with a fragment, with a
\* bracketed host and with letters outside ASCII
UrlSamples ==
    {<<"w", "s", ":">>, <<"w", "s", ":", "/">>, <<"w", "s", ":", "/", "/", "A">>,
     <<"w", "s", ":", "/", "/", "/", "/", "A">>, <<"A", "#", "s">>,
     UrlP, UrlPVariant, UrlPQuery, UrlS, UrlBracket, UrlIPv6, UrlIPv4, UrlIPvFuture,
     UrlLatin1}

UrlInputs == SeqsUpTo(UrlChars, MaxUrlLen) \cup UrlSamples \cup {NaN}

\* No unit is in use by the other runs
IdleServing ==
    /\ model_dir = [path |-> ModelDirPath, exists |-> FALSE, files |-> <<>>]
    /\ argsort_ties = "asc"
    /\ predictor = NoPredictor
    /\ result = NoResult
    /\ started = FALSE
    /\ runs = <<>>
    /\ response = NoResponse

\* canonicalize_url(url)
CanonicalizeUrl(url) ==
    /\ canon.call = "none"
    /\ \E out \in {canonicalize_url(url)} :
          canon' = [call |-> "canonicalize_url", url |-> url, out |-> out, pass |-> 1]
    /\ UNCHANGED <<servingVars, loaderVars, inflight, estimator, training>>

\* canonicalize_url applied to the string a previous call returned
CanonicalizeAgain ==
    /\ canon.call = "canonicalize_url"
    /\ canon.out.ok
    /\ canon.pass = 1
    /\ \E out \in {canonicalize_url(canon.out.value)} :
          canon' = [call |-> "canonicalize_url", url |-> canon.out.value, out |-> out,
                    pass |-> 2]
    /\ UNCHANGED <<servingVars, loaderVars, inflight, estimator, training>>

InitUrl ==
    /\ IdleServing
    /\ data_dir = NoData
    /\ bundle = NoResult
    /\ UnitsIdle

NextUrl ==
    \/ \E url \in UrlInputs : CanonicalizeUrl(url)
    \/ CanonicalizeAgain

SpecUrl == InitUrl /\ [][NextUrl]_vars

-----------------------------------------------------------------------------
(* Predictor calls on worker threads (the handlers of main.py run in a thread pool) *)

\* complete model directories the concurrent calls are served from
SharedDirs ==
    {[path |-> ModelDirPath, exists |-> TRUE, files |-> DefaultFiles],
     [path |-> ModelDirPath, exists |-> TRUE,
      files |-> (MetadataFile :> MetaOK)
                @@ (RoleModelFile :> RoleModelOf(<<2 * Scale, -Scale, 0>>))
                @@ (NarrativeModelFile
                        :> NarrativeModelOf(<<ServingThreshold, Below, Below, Below, Below>>))
                @@ (RiskModelFile :> RiskModelOf(<<4000000, 4000000, 2000000>>))]}

\* the texts of the concurrent analyze calls: one that is analyzed, one that is rejected
SharedTexts == {TextA, <<" ">>}

\* the texts of the concurrent compare calls: baseline and variant
SharedPairs == {<<TextA, TextB>>, <<TextB, <<" ">>>>}

\* a thread enters predictor.analyze(AnalyzeRequest(post_text=text))
StartAnalyze(r, text) ==
    /\ Constructed
    /\ inflight[r].pc = "idle"
    /\ \E request \in {AnalyzeRequest(text, "None")} :
          inflight' = [inflight EXCEPT ![r] =
                          IF request.ok
                          THEN [pc |-> "analyze", call |-> "analyze", text |-> text,
                                frame |-> Frame(request.value), out |-> NoResult]
                          ELSE [pc |-> "done", call |-> "analyze", text |-> text,
                                out |-> request]]
    /\ UNCHANGED <<servingVars, loaderVars, canon, estimator, training>>

\* a thread enters predictor.compare(baseline, variant): lines 257-258 build the
\* two requests, line 259 enters the first analyze call
StartCompare(r, baseline, variant) ==
    /\ Constructed
    /\ inflight[r].pc = "idle"
    /\ \E baseline_req \in {AnalyzeRequest(baseline, "None")},
          variant_req \in {AnalyzeRequest(variant, "None")} :
          inflight' = [inflight EXCEPT ![r] =
                          IF baseline_req.ok /\ variant_req.ok
                          THEN [pc |-> "baseline", call |-> "compare",
                                baseline |-> baseline, variant |-> variant,
                                frame |-> Frame(baseline_req.value), out |-> NoResult]
                          ELSE [pc |-> "done", call |-> "compare",
                                baseline |-> baseline, variant |-> variant,
                                out |-> IF ~baseline_req.ok THEN baseline_req
                                        ELSE variant_req]]
    /\ UNCHANGED <<servingVars, loaderVars, canon, estimator, training>>

\* The call of a thread after a group of statements of its analyze call: when the
\* analyze call is over, a Predictor.analyze call returns its outcome, compare
\* enters its second analyze call (line 260) after the first, and returns the
\* deltas (lines 262-288) after the second; an exception ends the call
AfterStep(call, frame) ==
    IF frame.pc # "done" THEN [call EXCEPT !.frame = frame]
    ELSE IF call.pc = "analyze" \/ ~frame.out.ok
    THEN [call EXCEPT !.pc = "done", !.frame = frame, !.out = frame.out]
    ELSE IF call.pc = "baseline"
    THEN [call EXCEPT !.pc = "variant",
                      !.frame = Frame(AnalyzeRequest(call.variant, "None").value),
                      !.out = frame.out]
    ELSE [call EXCEPT !.pc = "done", !.frame = frame,
                      !.out = compare_deltas(call.out, frame.out)]

\* the analyze call in progress on thread r runs its next group of statements,
\* the one named by at, on the Predictor as it is now
RunStep(r, at) ==
    /\ inflight[r].pc \in {"analyze", "baseline", "variant"}
    /\ inflight[r].frame.pc = at
    /\ \E next \in {analyze_step(predictor, inflight[r].frame, argsort_ties)} :
          /\ predictor' = next.self
          /\ inflight' = [inflight EXCEPT ![r] = AfterStep(inflight[r], next.frame)]
    /\ UNCHANGED <<model_dir, argsort_ties, result, started, runs, response, loaderVars,
                   canon, estimator, training>>

RunStrip(r) == RunStep(r, "strip")

RunNarratives(r) == RunStep(r, "narratives")

RunRoles(r) == RunStep(r, "roles")

RunRisk(r) == RunStep(r, "risk")

RunEvidence(r) == RunStep(r, "evidence")

RunRespond(r) == RunStep(r, "respond")

InitShared ==
    /\ model_dir \in SharedDirs
    /\ argsort_ties \in {"asc", "desc"}
    /\ predictor = NoPredictor
    /\ result = NoResult
    /\ started = FALSE
    /\ runs = <<>>
    /\ response = NoResponse
    /\ data_dir = NoData
    /\ bundle = NoResult
    /\ UnitsIdle

NextShared ==
    \/ Construct
    \/ \E r \in 1..MaxRequests, text \in SharedTexts : StartAnalyze(r, text)
    \/ \E r \in 1..MaxRequests, pair \in SharedPairs : StartCompare(r, pair[1], pair[2])
    \/ \E r \in 1..MaxRequests : RunStrip(r)
    \/ \E r \in 1..MaxRequests : RunNarratives(r)
    \/ \E r \in 1..MaxRequests : RunRoles(r)
    \/ \E r \in 1..MaxRequests : RunRisk(r)
    \/ \E r \in 1..MaxRequests : RunEvidence(r)
    \/ \E r \in 1..MaxRequests : RunRespond(r)

SpecShared == InitShared /\ [][NextShared]_vars

-----------------------------------------------------------------------------
(* Calls of insert_run and fetch_history on the runs table *)

\* responses handed to insert_run: with meta.timestamp_iso, with an empty
\* timestamp_iso and a meta.timestamp, and without meta (a compare response)
StoredResponses ==
    {[meta |-> [timestamp_iso |-> "t1"], input_text |-> TextA],
     [meta |-> [timestamp_iso |-> "", timestamp |-> "t2"]],
     [meta |-> [timestamp_iso |-> ""]],
     [delta |-> [changed_top_phrases |-> <<>>]]}

\* insert_run(mode, response, baseline_text, variant_text)
InsertRun(mode, resp, baseline_text, variant_text) ==
    /\ Len(runs) < MaxRuns
    /\ \E out \in {insert_run(runs, mode, resp, baseline_text, variant_text)} :
          /\ runs' = IF out.ok THEN out.value ELSE runs
          /\ result' = [call |-> "insert_run",
                        out |-> IF out.ok THEN Return("None") ELSE out]
    /\ UNCHANGED <<model_dir, predictor, argsort_ties, started, response, loaderVars, unitVars>>

\* fetch_history(limit)
FetchHistory(limit) ==
    /\ result' = [call |-> "fetch_history", limit |-> limit,
                  out |-> Return(fetch_history(runs, limit))]
    /\ UNCHANGED <<model_dir, predictor, argsort_ties, started, runs, response, loaderVars,
                   unitVars>>

InitDb ==
    /\ IdleServing
    /\ data_dir = NoData
    /\ bundle = NoResult
    /\ UnitsIdle

NextDb ==
    \/ \E mode \in {"analyze", "compare"}, resp \in StoredResponses,
          baseline_text \in {SqlText(TextA), SqlText(TextB)},
          variant_text \in {SqlNull, SqlText(TextB)} :
            InsertRun(mode, resp, baseline_text, variant_text)
    \/ \E limit \in -1..(MaxRuns + 1) : FetchHistory(limit)

SpecDb == InitDb /\ [][NextDb]_vars

-----------------------------------------------------------------------------
(* Calls on a RoleCompositionModel *)

\* how self.pipeline.fit(X, y) may end for the training data handed to fit
PipelineFits ==
    {Fitted(RolePipelineOf(raw)) : raw \in RolePredictions}
    \cup {FitFailed([fitted |-> FALSE]), FitFailed(Tfidf)}

\* build_role_model(tfidf_params), or RoleCompositionModel(tfidf_params, alpha_grid)
BuildRoleModel(tfidf_params, alpha_grid) ==
    /\ estimator = NoEstimator
    /\ estimator' = [kind |-> "RoleCompositionModel",
                     model |-> RoleCompositionModel(tfidf_params, alpha_grid),
                     fits |-> <<>>,
                     last |-> [call |-> "build_role_model", out |-> Return("model")]]
    /\ UNCHANGED <<servingVars, loaderVars, canon, inflight, training>>

\* model.set_params(tfidf_params=...)
SetParams(tfidf_params) ==
    /\ estimator.kind = "RoleCompositionModel"
    /\ estimator' = [estimator EXCEPT
                        !.model = set_params(@, tfidf_params),
                        !.last = [call |-> "set_params", out |-> Return("self")]]
    /\ UNCHANGED <<servingVars, loaderVars, canon, inflight, training>>

\* model.fit(X, y); the history notes whether the call was rejected before line 54,
\* failed inside self.pipeline.fit, or fitted the model
FitRoleModel(pipeline_fit) ==
    /\ estimator.kind = "RoleCompositionModel"
    /\ Len(estimator.fits) < MaxFits
    /\ \E done \in {fit(estimator.model, pipeline_fit)} :
          estimator' = [estimator EXCEPT
                            !.model = done.self,
                            !.fits = Append(@,
                                IF ~build_tfidf_vectorizer(estimator.model.tfidf_params).ok
                                THEN "rejected"
                                ELSE IF done.out.ok THEN "fitted" ELSE "failed"),
                            !.last = [call |-> "fit", out |-> done.out]]
    /\ UNCHANGED <<servingVars, loaderVars, canon, inflight, training>>

\* model.predict([X])
PredictRoles(X) ==
    /\ estimator.kind = "RoleCompositionModel"
    /\ estimator' = [estimator EXCEPT
                        !.last = [call |-> "predict", out |-> predict(estimator.model, X)]]
    /\ UNCHANGED <<servingVars, loaderVars, canon, inflight, training>>

\* model.predict_raw([X])
PredictRawRoles(X) ==
    /\ estimator.kind = "RoleCompositionModel"
    /\ estimator' = [estimator EXCEPT
                        !.last = [call |-> "predict_raw",
                                  out |-> predict_raw(estimator.model, X)]]
    /\ UNCHANGED <<servingVars, loaderVars, canon, inflight, training>>

\* model.get_tfidf()
GetTfidf ==
    /\ estimator.kind = "RoleCompositionModel"
    /\ estimator' = [estimator EXCEPT
                        !.last = [call |-> "get_tfidf", out |-> get_tfidf(estimator.model)]]
    /\ UNCHANGED <<servingVars, loaderVars, canon, inflight, training>>

\* tfidf_params given to a role model: those of main, none, a single parameter,
\* a parameter build_tfidf_vectorizer sets itself, an unknown one
RoleModelParams ==
    {TfidfParams, NoneValue, [max_features |-> 30000], [lowercase |-> FALSE],
     [min_d |-> 2]}

\* alpha_grid given to a role model: none (np.logspace(-3, 3, 13)), or an array
AlphaGrids == {NoneValue, [values |-> <<Scale \div 10, Scale>>]}

InitRoleModel ==
    /\ IdleServing
    /\ data_dir = NoData
    /\ bundle = NoResult
    /\ UnitsIdle

NextRoleModel ==
    \/ \E tfidf_params \in RoleModelParams, alpha_grid \in AlphaGrids :
          BuildRoleModel(tfidf_params, alpha_grid)
    \/ \E tfidf_params \in RoleModelParams : SetParams(tfidf_params)
    \/ \E pipeline_fit \in PipelineFits : FitRoleModel(pipeline_fit)
    \/ \E X \in ValidTexts : PredictRoles(X)
    \/ \E X \in ValidTexts : PredictRawRoles(X)
    \/ GetTfidf

SpecRoleModel == InitRoleModel /\ [][NextRoleModel]_vars

-----------------------------------------------------------------------------
(* ml_training/eval.py: the number of folds *)

\* _effective_splits(groups, desired) without the check for fewer than 2 groups
EffectiveSplitsUnchecked(groups, desired) ==
    Max(2, Min(desired, Cardinality(Range(groups))))

\* _effective_splits(groups, desired)
_effective_splits(groups, desired) ==
    IF Cardinality(Range(groups)) < 2 THEN 0
    ELSE Max(2, Min(desired, Cardinality(Range(groups))))

-----------------------------------------------------------------------------
(* ml_training/train_all.py: main *)

\* the three models main trains, in the order of its code
TrainTasks == <<"role", "narrative", "risk">>

\* joblib.dump(<task>_model, models_dir / "<task>_model.joblib")
ModelFile(task) ==
    CASE task = "role" -> RoleModelFile
      [] task = "narrative" -> NarrativeModelFile
      [] task = "risk" -> RiskModelFile

\* the plots evaluate_<task>_model writes under plots_dir, in the order written
PlotFiles(task) ==
    CASE task = "role" -> <<"reports/plots/role_mean_distribution.png",
                            "reports/plots/role_scatter_top6.png">>
      [] task = "narrative" -> <<"reports/plots/narrative_pr_curves.png">>
      [] task = "risk" -> <<"reports/plots/risk_confusion_matrix.png">>

\* _save_reports: three reports under reports_dir, then metadata.json into
\* models_dir (the files of models_dir carry their bare names)
ReportFiles ==
    {"reports/metrics.json", "reports/split_manifest.json", "reports/top_ngrams.json",
     MetadataFile}

\* _save_reports, lines 165-174: the metadata it writes to metadata.json
_save_reports(holdout_company, tfidf_params) ==
    [role_buckets |-> ROLE_BUCKETS,
     narrative_labels |-> NARRATIVE_LABELS,
     narrative_threshold |-> Scale \div 2,
     narrative_share_threshold |-> NARRATIVE_THRESHOLD,
     holdout_company |-> holdout_company,
     min_comments |-> [role |-> ROLE_MIN_COMMENTS, narrative |-> NARRATIVE_MIN_COMMENTS],
     tfidf_params |-> tfidf_params]

\* the frame a task is fitted on
TrainFrame(b, task) ==
    CASE task = "role" -> b.role_train
      [] task = "narrative" -> b.narrative_train
      [] task = "risk" -> b.risk_train

\* the task main turns to after the dump of a model, "None" after the last
NextTask(task) ==
    CASE task = "role" -> "narrative"
      [] task = "narrative" -> "risk"
      [] task = "risk" -> "None"

\* a run stopped by an exception that main does not catch
TrainingFailed(run, error) == [run EXCEPT !.pc = "failed", !.error = error]

\* a run that finished the statement group `stage` and stands before `pc`
TrainingAt(run, stage, pc) ==
    [run EXCEPT !.pc = pc, !.stages = Append(@, [stage |-> stage, task |-> run.task])]

\* main, lines 47-57: parse_args, set_seed, the three safe_mkdir calls
StartTraining(holdout_company, disable_cv) ==
    /\ data_dir # NoData
    /\ training = NoTraining
    /\ training' = [pc |-> "load_datasets",
                    holdout_company |-> holdout_company,
                    disable_cv |-> disable_cv,
                    task |-> "None",
                    stages |-> <<>>,
                    files |-> {},
                    error |-> "None"]
    /\ UNCHANGED <<servingVars, loaderVars, canon, inflight, estimator>>

\* main, line 60: bundle = data_loader.load_datasets(...)
TrainLoadDatasets ==
    /\ training.pc = "load_datasets"
    /\ \E out \in {load_datasets(data_dir, training.holdout_company)} :
          /\ bundle' = [call |-> "load_datasets",
                        holdout_company |-> training.holdout_company,
                        out |-> out,
                        warnings |-> LoggedWarnings(data_dir, training.holdout_company)]
          /\ training' = IF out.ok
                         THEN [TrainingAt(training, "load_datasets", "fit") EXCEPT
                                  !.task = "role"]
                         ELSE TrainingFailed(training, out.error)
    /\ UNCHANGED <<servingVars, data_dir, canon, inflight, estimator>>

\* main, lines 71-72, 82-83, 102-103: build_<task>_model and model.fit.  The
\* vectorizer raises ValueError on an empty frame (empty vocabulary); on other
\* frames the outcome of the library's fit is an input of the step.
TrainFit(fitted) ==
    /\ training.pc = "fit"
    /\ fitted => TrainFrame(bundle.out.value, training.task) # <<>>
    /\ training' = IF fitted THEN TrainingAt(training, "fit", "evaluate")
                   ELSE TrainingFailed(training, "ValueError")
    /\ UNCHANGED <<servingVars, loaderVars, canon, inflight, estimator>>

\* main, lines 72-77, 84-97, 104-111: evaluate_<task>_model on the holdout frame,
\* then the grouped cross-validation unless disabled.  evaluate_<task>_model
\* computes its metrics and then writes the task's plots one after the other
\* (the narrative one extracts the top terms after its plot): when it raises,
\* the plots written before stay on disk.  The cross-validation runs when every
\* plot is written; over fewer than 2 companies it returns before it fits a
\* model.  `raised` names the call that raises ("None": neither does).
TrainEvaluate(raised, plots_written) ==
    /\ training.pc = "evaluate"
    /\ plots_written \in 0..Len(PlotFiles(training.task))
    /\ raised = "None" => plots_written = Len(PlotFiles(training.task))
    /\ raised = "evaluate" =>
          plots_written < Len(PlotFiles(training.task)) \/ training.task = "narrative"
    /\ raised = "run_group_cv" =>
          /\ plots_written = Len(PlotFiles(training.task))
          /\ ~training.disable_cv
          /\ _effective_splits(
                 [i \in 1..Len(TrainFrame(bundle.out.value, training.task)) |->
                     TrainFrame(bundle.out.value, training.task)[i].company], 5) >= 2
    /\ training' =
          [(IF raised = "None" THEN TrainingAt(training, "evaluate", "dump")
            ELSE TrainingFailed(training, "ValueError")) EXCEPT
              !.files = @ \cup {PlotFiles(training.task)[i] : i \in 1..plots_written}]
    /\ UNCHANGED <<servingVars, loaderVars, canon, inflight, estimator>>

\* the dump of a model writing metadata.json next to it
TrainDumpWithMetadata ==
    /\ training.pc = "dump"
    /\ training' = [TrainingAt(training, "dump",
                               IF NextTask(training.task) = "None"
                               THEN "build_retriever_artifacts" ELSE "fit") EXCEPT
                        !.files = @ \cup {ModelFile(training.task), MetadataFile},
                        !.task = NextTask(@)]
    /\ UNCHANGED <<servingVars, loaderVars, canon, inflight, estimator>>

\* main, lines 78, 98, 112: joblib.dump of the model just fitted and evaluated
TrainDump ==
    /\ training.pc = "dump"
    /\ training' = [TrainingAt(training, "dump",
                               IF NextTask(training.task) = "None"
                               THEN "build_retriever_artifacts" ELSE "fit") EXCEPT
                        !.files = @ \cup {ModelFile(training.task)},
                        !.task = NextTask(@)]
    /\ UNCHANGED <<servingVars, loaderVars, canon, inflight, estimator>>

\* main, line 116: build_retriever_artifacts fits the shared vectorizer and then
\* writes its three files
TrainBuildRetriever(fitted) ==
    /\ training.pc = "build_retriever_artifacts"
    /\ fitted => bundle.out.value.retriever_train_posts # <<>>
    /\ training' = IF fitted
                   THEN [TrainingAt(training, "build_retriever_artifacts", "_save_reports")
                            EXCEPT !.files = @ \cup RetrieverFiles]
                   ELSE TrainingFailed(training, "ValueError")
    /\ UNCHANGED <<servingVars, loaderVars, canon, inflight, estimator>>

\* main, lines 118-137: _save_reports and the run checklist
TrainSaveReports ==
    /\ training.pc = "_save_reports"
    /\ training' = [TrainingAt(training, "_save_reports", "done") EXCEPT
                        !.files = @ \cup ReportFiles]
    /\ UNCHANGED <<servingVars, loaderVars, canon, inflight, estimator>>

InitTrain ==
    /\ IdleServing
    /\ data_dir \in DataDirs
    /\ bundle = NoResult
    /\ UnitsIdle

NextTrain ==
    \/ \E holdout_company \in Range(CompanyNames), disable_cv \in BOOLEAN :
          StartTraining(holdout_company, disable_cv)
    \/ TrainLoadDatasets
    \/ \E fitted \in BOOLEAN : TrainFit(fitted)
    \/ \E raised \in {"None", "evaluate", "run_group_cv"}, plots_written \in 0..2 :
          TrainEvaluate(raised, plots_written)
    \/ TrainDump
    \/ \E fitted \in BOOLEAN : TrainBuildRetriever(fitted)
    \/ TrainSaveReports

SpecTrain == InitTrain /\ [][NextTrain]_vars

-----------------------------------------------------------------------------
(* Calls of the target computations of the loader on loaded frames *)

\* the largest number of equal comments under one post
ManyComments == 10

\* the comments of a frame come in four kinds: a recognised role with a recognised
\* narrative (twice), an unknown role with an unknown narrative, and missing labels
CommentKinds ==
    <<CommentRow(UrlP, "Software Engineer", "burnout"),
      CommentRow(UrlPVariant, "Wizard", "praise"),
      CommentRow(UrlPQuery, NaNLabel, NaNLabel),
      CommentRow(UrlP, "Recruiter/HR", "toxic_culture")>>

Replicate(n, row) == [i \in 1..n |-> row]

\* comments_df as _load_comments_full returns it: counts[k] comments of kind k under
\* the post P of acme, then `others` under the post S
CommentsFrame(counts, others) ==
    WithCleanUrl(Replicate(counts[1], CommentKinds[1]) \o Replicate(counts[2], CommentKinds[2])
                 \o Replicate(counts[3], CommentKinds[3]) \o Replicate(counts[4], CommentKinds[4])
                 \o others,
                 "acme")

CommentsFrames ==
    {CommentsFrame(counts, others) :
        counts \in [1..4 -> {0, 1, ManyComments}],
        others \in {<<>>, <<CommentRow(UrlS, "Designer", "elitism")>>}}

\* posts_df as _load_posts returns it
PostsFrames ==
    {WithCleanUrl(rows, "acme") :
        rows \in {<<>>,
                  <<PostRow(UrlP, TextA, 20, NaN, <<"h", "a">>, 0)>>,
                  <<PostRow(UrlP, TextA, 20, NaN, <<"h", "a">>, NARRATIVE_THRESHOLD),
                    PostRow(UrlS, TextB, 5, NaN, <<"h", "a">>, NARRATIVE_THRESHOLD - 1)>>}}

\* _compute_narrative_flags(posts_df, comments_df)
ComputeNarrativeFlags(posts_df, comments_df) ==
    /\ bundle.call = "none"
    /\ bundle' = [call |-> "_compute_narrative_flags",
                  posts_df |-> posts_df, comments_df |-> comments_df,
                  out |-> _compute_narrative_flags(posts_df, comments_df)]
    /\ UNCHANGED <<servingVars, data_dir, unitVars>>

\* _compute_role_distribution(comments_df)
ComputeRoleDistribution(comments_df) ==
    /\ bundle.call = "none"
    /\ bundle' = [call |-> "_compute_role_distribution",
                  comments_df |-> comments_df,
                  out |-> _compute_role_distribution(comments_df)]
    /\ UNCHANGED <<servingVars, data_dir, unitVars>>

InitTargets ==
    /\ IdleServing
    /\ data_dir = NoData
    /\ bundle = NoResult
    /\ UnitsIdle

NextTargets ==
    \/ /\ bundle.call = "none"
       /\ \E posts_df \in PostsFrames, comments_df \in CommentsFrames :
             ComputeNarrativeFlags(posts_df, comments_df)
    \/ /\ bundle.call = "none"
       /\ \E comments_df \in CommentsFrames : ComputeRoleDistribution(comments_df)

SpecTargets == InitTargets /\ [][NextTargets]_vars

-----------------------------------------------------------------------------
(* ml_training/eval.py: grouped cross-validation *)

\* GroupKFold(n_splits).split(df, groups=groups): the library rejects more folds
\* than groups; otherwise it puts every group into one fold, no fold left empty,
\* and yields per fold the rows outside it and the rows in it.  The assignment
\* group_to_fold is the library's choice.
GroupKFoldAssignments(groups, n_splits) ==
    {a \in [Range(groups) -> 1..n_splits] : \A f \in 1..n_splits : \E g \in Range(groups) : a[g] = f}

GroupKFoldSplit(groups, n_splits, group_to_fold) ==
    [f \in 1..n_splits |->
        [train_idx |-> {i \in 1..Len(groups) : group_to_fold[groups[i]] # f},
         val_idx |-> {i \in 1..Len(groups) : group_to_fold[groups[i]] = f}]]

\* run_group_cv_role, run_group_cv_narrative, run_group_cv_risk: the three share
\* their structure.  The loop builds, fits and scores one model per fold, in the
\* order of the folds; `failing_fold` is the fold whose model raises in fit,
\* predict or the score (0, or a number beyond the folds: none does), which ends
\* the call after the earlier folds were fitted and scored.  The result is the
\* returned value, the folds drawn and the number of fit calls made.
run_group_cv(task, df, n_splits, group_to_fold, failing_fold) ==
    LET groups == [i \in 1..Len(df) |-> df[i].company]
    IN  CHOOSE run \in
            {IF splits < 2
             THEN [out |-> Return([scores |-> <<>>]), splits |-> splits, folds |-> <<>>, fits |-> 0]
             ELSE IF Cardinality(Range(groups)) < splits
             THEN [out |-> Raise("ValueError"), splits |-> splits, folds |-> <<>>, fits |-> 0]
             ELSE IF failing_fold \in 1..splits
             THEN [out |-> Raise("ValueError"), splits |-> splits,
                   folds |-> SubSeq(GroupKFoldSplit(groups, splits, group_to_fold),
                                    1, failing_fold),
                   fits |-> failing_fold]
             ELSE [out |-> Return([scores |-> [f \in 1..splits |-> task]]),
                   splits |-> splits,
                   folds |-> GroupKFoldSplit(groups, splits, group_to_fold),
                   fits |-> splits] :
                splits \in {_effective_splits(groups, n_splits)}} : TRUE

\* the largest frame handed to the cross-validation
MaxCvRows == 4

\* the frames: the company column decides the folds
CvFrames == SeqsUpTo({[company |-> c] : c \in Range(CompanyNames)}, MaxCvRows)

\* the fold assignments the library may choose for the call
CvAssignments(df, n_splits) ==
    LET groups == [i \in 1..Len(df) |-> df[i].company]
        splits == Max(2, Min(n_splits, Cardinality(Range(groups))))
    IN  IF groups = <<>> \/ Cardinality(Range(groups)) < splits
        THEN {<<>>}
        ELSE GroupKFoldAssignments(groups, splits)

\* run_group_cv_<task>(model_builder, df, n_splits)
RunGroupCv(task, df, n_splits, group_to_fold, failing_fold) ==
    /\ training = NoTraining
    /\ \E run \in {run_group_cv(task, df, n_splits, group_to_fold, failing_fold)} :
          training' = [pc |-> "run_group_cv", task |-> task, df |-> df,
                       n_splits |-> n_splits, out |-> run.out, splits |-> run.splits,
                       folds |-> run.folds, fits |-> run.fits]
    /\ UNCHANGED <<servingVars, loaderVars, canon, inflight, estimator>>

InitCv ==
    /\ IdleServing
    /\ data_dir = NoData
    /\ bundle = NoResult
    /\ UnitsIdle

NextCv ==
    /\ training = NoTraining
    /\ \E task \in Range(TrainTasks), df \in CvFrames, n_splits \in {1, 2, 5},
          failing_fold \in 0..Len(CompanyNames) :
          \E group_to_fold \in CvAssignments(df, n_splits) :
              RunGroupCv(task, df, n_splits, group_to_fold, failing_fold)

SpecCv == InitCv /\ [][NextCv]_vars

-----------------------------------------------------------------------------
(* Calls of the evidence functions on their own *)

\* the longest phrase list handed to _compare_top_phrases
MaxPhrases == 6

PhraseTerms ==
    <<"t01", "t02", "t03", "t04", "t05", "t06", "t07", "t08", "t09", "t10", "t11", "t12",
      "t13", "t14", "t15", "t16">>

\* a phrase list of n entries over the terms after `off`: weights falling in
\* absolute value with alternating sign ("ranked"), all equal ("flat"), or two
\* terms repeated ("repeated")
PhraseList(off, n, pattern) ==
    [i \in 1..n |->
        [ngram |-> PhraseTerms[off + (IF pattern = "repeated" THEN ((i - 1) % 2) + 1 ELSE i)],
         weight |-> CASE pattern = "ranked" -> (IF i % 2 = 0 THEN -1 ELSE 1) * (n + 1 - i) * 3
                      [] pattern = "flat" -> 2
                      [] pattern = "repeated" -> i]]

PhraseLists ==
    {PhraseList(off, n, pattern) :
        off \in {0, MaxPhrases - 1, MaxPhrases}, n \in 0..MaxPhrases,
        pattern \in {"ranked", "flat", "repeated"}}

\* sparse rows over a vocabulary of three terms: the stored columns and their values
SparseRows ==
    {[ncols |-> 3, data |-> data, indices |-> indices] :
        indices \in {<<>>, <<1>>, <<3>>, <<1, 2>>, <<2, 3>>, <<1, 2, 3>>},
        data \in SeqsUpTo({1, 2}, 3)}

\* coefficient vectors: one per vocabulary term, or one short
CoefVectors == {c \in SeqsUpTo({-2, 0, 1, 2}, 3) : Len(c) >= 2}

\* Predictor._compare_top_phrases(baseline_phrases, variant_phrases)
ComparePhrases(baseline_phrases, variant_phrases) ==
    /\ result.call = "none"
    /\ result' = [call |-> "_compare_top_phrases",
                  baseline_phrases |-> baseline_phrases,
                  variant_phrases |-> variant_phrases,
                  out |-> _compare_top_phrases(baseline_phrases, variant_phrases)]
    /\ UNCHANGED <<model_dir, predictor, argsort_ties, started, runs, response,
                   data_dir, bundle, unitVars>>

\* top_contributions_from_vec(vec, coefs, feature_names, top_k)
TopContributions(vec, coefs, top_k) ==
    /\ result.call = "none"
    /\ Len(vec.data) = Len(vec.indices)
    /\ result' = [call |-> "top_contributions_from_vec",
                  vec |-> vec, coefs |-> coefs, top_k |-> top_k,
                  out |-> top_contributions_from_vec(vec, coefs, Tfidf.feature_names,
                                                     top_k, argsort_ties)]
    /\ UNCHANGED <<model_dir, predictor, argsort_ties, started, runs, response,
                   data_dir, bundle, unitVars>>

InitExplain ==
    /\ model_dir = [path |-> ModelDirPath, exists |-> FALSE, files |-> <<>>]
    /\ argsort_ties \in {"asc", "desc"}
    /\ predictor = NoPredictor
    /\ result = NoResult
    /\ started = FALSE
    /\ runs = <<>>
    /\ response = NoResponse
    /\ data_dir = NoData
    /\ bundle = NoResult
    /\ UnitsIdle

NextExplain ==
    \/ /\ result.call = "none"
       /\ \E baseline_phrases \in PhraseLists, variant_phrases \in PhraseLists :
             ComparePhrases(baseline_phrases, variant_phrases)
    \/ /\ result.call = "none"
       /\ \E vec \in SparseRows, coefs \in CoefVectors, top_k \in 0..MaxK :
             TopContributions(vec, coefs, top_k)

SpecExplain == InitExplain /\ [][NextExplain]_vars

-----------------------------------------------------------------------------
(* Properties of the Predictor *)

AnalyzeReturned == result.call = "analyze" /\ result.out.ok

FlagsOf(resp) == resp.narratives.narrative_flags

AnyHarmfulFlag(flags) ==
    flags["toxic_culture"] \/ flags["elitism"] \/ flags["credibility_overclaim"]
    \/ flags["culture_misalignment"]

\* the largest of the three returned class probabilities belongs to class c alone
StatisticalWinner(resp, c) ==
    \A d \in (DOMAIN resp.risk.risk_probs) \ {c} : resp.risk.risk_probs[d] < resp.risk.risk_probs[c]

\* C1: the risk_class of every analyze response is decided by the five narrative
\* flags alone: Harmful when toxic_culture, elitism, credibility_overclaim or
\* culture_misalignment is flagged, else Harmless when burnout is flagged, else
\* Helpful, whatever the risk model's probabilities are.
C1_RuleBasedFromFlags ==
    AnalyzeReturned =>
        LET resp == result.out.value
            flags == FlagsOf(resp)
        IN  resp.risk.risk_class =
                IF AnyHarmfulFlag(flags) THEN "Harmful"
                ELSE IF flags["burnout"] THEN "Harmless"
                ELSE "Helpful"

\* C1 witness: only burnout is flagged, the class is Harmless, and the risk
\* model's most probable class is Harmful
C1_Witness ==
    /\ AnalyzeReturned
    /\ FlagsOf(result.out.value)["burnout"]
    /\ ~AnyHarmfulFlag(FlagsOf(result.out.value))
    /\ result.out.value.risk.risk_class = "Harmless"
    /\ StatisticalWinner(result.out.value, "Harmful")

CompareReturned == result.call = "compare" /\ result.out.ok

SameTextCompared == CompareReturned /\ Strip(result.baseline) = Strip(result.variant)

ZeroDeltas(delta) ==
    /\ \A r \in DOMAIN delta.role_pct_delta : delta.role_pct_delta[r] = 0
    /\ \A c \in DOMAIN delta.risk_prob_delta : delta.risk_prob_delta[c] = 0

\* C2 as stated: comparing a text with itself gives zero role and risk deltas and
\* an empty changed_top_phrases.
C2_SelfCompareEmptyPhrases ==
    SameTextCompared =>
        /\ ZeroDeltas(result.out.value.delta)
        /\ Len(result.out.value.delta.changed_top_phrases) = 0

\* C2 amended: comparing a text with itself gives zero role and risk deltas, and
\* changed_top_phrases lists every term of the text's risk evidence once, each
\* with weight 0 (so it is empty only when the risk evidence is empty).
C2_SelfCompareZeroWeights ==
    SameTextCompared =>
        LET out == result.out.value
            changed == out.delta.changed_top_phrases
            evidence == out.baseline.evidence.risk_top_ngrams
        IN  /\ ZeroDeltas(out.delta)
            /\ \A i \in 1..Len(changed) : changed[i].weight = 0
            /\ {changed[i].ngram : i \in 1..Len(changed)}
                 = {evidence[i].ngram : i \in 1..Len(evidence)}
            /\ Len(changed) = Cardinality({evidence[i].ngram : i \in 1..Len(evidence)})

\* C2 witness: a text compared with itself whose risk evidence is not empty
C2_Witness ==
    /\ SameTextCompared
    /\ Len(result.out.value.baseline.evidence.risk_top_ngrams) > 0
    /\ Len(result.out.value.delta.changed_top_phrases) > 0

\* the class-valued fields of the risk section of a response
ClassFields == {"risk_class", "risk_level"}

\* C3 as stated: an analyze response carries both verdicts, the rule-based class
\* and the risk model's arg-max class.
C3_BothVerdictsReturned ==
    AnalyzeReturned =>
        LET resp == result.out.value
            self == predictor
            statistical == _risk_model_preds(self, resp.input_text).value.pred
        IN  /\ resp.risk.risk_class
                  = _risk_rule_based(_narratives(self, resp.input_text).value)
            /\ \E f \in (DOMAIN resp.risk) \cap ClassFields : resp.risk[f] = statistical

\* C4 as stated: when toxic_culture or burnout is flagged the rule-based class
\* is Harmful.
C4_ToxicOrBurnoutHarmful ==
    AnalyzeReturned =>
        LET resp == result.out.value
        IN  (FlagsOf(resp)["toxic_culture"] \/ FlagsOf(resp)["burnout"])
                => resp.risk.risk_class = "Harmful"

\* C4 amended: when toxic_culture is flagged the rule-based class is Harmful;
\* when burnout is flagged it is Harmful or Harmless, and Harmless exactly when
\* none of toxic_culture, elitism, credibility_overclaim, culture_misalignment
\* is flagged.
C4_ToxicHarmfulBurnoutNotHelpful ==
    AnalyzeReturned =>
        LET resp == result.out.value
            flags == FlagsOf(resp)
        IN  /\ flags["toxic_culture"] => resp.risk.risk_class = "Harmful"
            /\ flags["burnout"] =>
                  /\ resp.risk.risk_class \in {"Harmful", "Harmless"}
                  /\ (resp.risk.risk_class = "Harmless") <=> ~AnyHarmfulFlag(flags)

\* C4 witness: burnout is the only flag and the class is Harmless
C4_Witness ==
    /\ AnalyzeReturned
    /\ \A l \in DOMAIN FlagsOf(result.out.value) :
          FlagsOf(result.out.value)[l] <=> l = "burnout"
    /\ result.out.value.risk.risk_class = "Harmless"

\* a similar-post lookup returned, from a retriever that is present
LookupReturned ==
    /\ result.call \in {"_similar_posts", "get_similar_posts"}
    /\ result.out.ok
    /\ RetrieverFiles \subseteq DOMAIN model_dir.files

IndexRows == model_dir.files[IndexFile].rows

Similarities == model_dir.files[MatrixFile].similarity[Strip(result.text)]

\* the index row a returned record comes from (post_url is unique in the index)
RowOf(rec) == CHOOSE i \in 1..Len(IndexRows) : IndexRows[i].post_url = rec.post_url

ScoreOf(rec) == IF result.call = "_similar_posts" THEN rec.score ELSE rec.similarity

\* C5 as stated: a lookup over an index of N rows returns min(k, N) rows in order
\* of non-increasing similarity, rows of equal similarity in ascending row order.
C5_RankedTiesInRowOrder ==
    (LookupReturned /\ result.k >= 0) =>
        LET out == result.out.value
        IN  /\ Len(out) = Min(result.k, Len(IndexRows))
            /\ \A i \in 1..Len(out), j \in 1..Len(out) :
                  i < j => \/ ScoreOf(out[i]) > ScoreOf(out[j])
                           \/ /\ ScoreOf(out[i]) = ScoreOf(out[j])
                              /\ RowOf(out[i]) < RowOf(out[j])

\* C5, the part the code guarantees: for k >= 0 a lookup over an index of N rows
\* returns min(k, N) distinct rows, each with its own cosine similarity, in order
\* of non-increasing similarity, and no row left out is more similar than a row
\* returned; the order of rows of equal similarity is left to np.argsort.
C5_RankedTopK ==
    (LookupReturned /\ result.k >= 0) =>
        LET out == result.out.value
            returned == {RowOf(out[i]) : i \in 1..Len(out)}
        IN  /\ Len(out) = Min(result.k, Len(IndexRows))
            /\ Cardinality(returned) = Len(out)
            /\ \A i \in 1..Len(out) :
                  /\ ScoreOf(out[i]) = Similarities[RowOf(out[i])]
                  /\ out[i].company = IndexRows[RowOf(out[i])].company
            /\ \A i \in 1..Len(out), j \in 1..Len(out) :
                  i < j => ScoreOf(out[i]) >= ScoreOf(out[j])
            /\ \A r \in (1..Len(IndexRows)) \ returned, i \in 1..Len(out) :
                  Similarities[r] <= ScoreOf(out[i])

\* C5 witness: a lookup that cuts an index of three rows to two, the rows
\* returned being equally similar and more similar than the row left out
C5_Witness ==
    /\ LookupReturned
    /\ result.call = "_similar_posts"
    /\ result.k = 2
    /\ Len(IndexRows) = 3
    /\ Len(result.out.value) = 2
    /\ result.out.value[1].score = result.out.value[2].score
    /\ \E r \in 1..3 : Similarities[r] < result.out.value[2].score

\* what Predictor construction requires of the model directory
RequiredPresent(dir) ==
    /\ dir.exists
    /\ MetadataFile \in DOMAIN dir.files
    /\ "role_buckets" \in DOMAIN dir.files[MetadataFile]
    /\ Len(dir.files[MetadataFile].role_buckets) > 0
    /\ "narrative_labels" \in DOMAIN dir.files[MetadataFile]
    /\ Len(dir.files[MetadataFile].narrative_labels) > 0
    /\ ModelFiles \subseteq DOMAIN dir.files

\* C6: Predictor construction yields an object exactly when the directory exists,
\* metadata.json is there with non-empty role_buckets and narrative_labels and
\* the three model files are there, and raises otherwise; with any retriever
\* file absent construction is not affected, the object has no retriever and
\* _similar_posts returns the empty list.
C6_ConstructionRequirements ==
    /\ result.call = "Predictor" =>
          /\ result.ok <=> RequiredPresent(model_dir)
          /\ result.ok <=> predictor.kind = "predictor"
          /\ (result.ok /\ ~(RetrieverFiles \subseteq DOMAIN model_dir.files))
                => predictor.retriever.kind = "none"
    /\ predictor.kind = "predictor" => RequiredPresent(model_dir)
    /\ (result.call = "_similar_posts" /\ ~(RetrieverFiles \subseteq DOMAIN model_dir.files))
          => Len(result.out.value) = 0

\* C6 witness: some but not all retriever files are there, the Predictor was
\* constructed and a lookup returned the empty list
C6_Witness ==
    /\ result.call = "_similar_posts"
    /\ RetrieverFiles \cap DOMAIN model_dir.files # {}
    /\ ~(RetrieverFiles \subseteq DOMAIN model_dir.files)
    /\ predictor.kind = "predictor"
    /\ Len(result.out.value) = 0

\* C13: in every analyze response the flags and the probabilities have the same
\* labels, and a label's flag is true exactly when its returned probability is
\* at least 0.10
C13_FlagIffProbAtLeastTenPercent ==
    AnalyzeReturned =>
        LET narratives == result.out.value.narratives
        IN  /\ DOMAIN narratives.narrative_flags = DOMAIN narratives.narrative_probs
            /\ \A label \in DOMAIN narratives.narrative_probs :
                  narratives.narrative_flags[label]
                      <=> (10 * narratives.narrative_probs[label] >= Scale)

\* A response with a label exactly at 0.10 (flagged) and one just below (not)
C13_Witness ==
    /\ AnalyzeReturned
    /\ \E hit, miss \in DOMAIN result.out.value.narratives.narrative_probs :
          /\ 10 * result.out.value.narratives.narrative_probs[hit] = Scale
          /\ result.out.value.narratives.narrative_flags[hit]
          /\ 10 * result.out.value.narratives.narrative_probs[miss] < Scale
          /\ ~result.out.value.narratives.narrative_flags[miss]

\* The thresholds a metadata.json records
ThresholdSettings == {"narrative_threshold", "narrative_share_threshold"}

\* C14 as stated: the serving threshold is a setting, separate from the reporting
\* threshold: the flags of a response are decided against a threshold the
\* Predictor was configured with (0.10 when its metadata does not set one)
C14_ServingThresholdIsASetting ==
    AnalyzeReturned =>
        \E setting \in ThresholdSettings :
            \A label \in DOMAIN result.out.value.narratives.narrative_probs :
                result.out.value.narratives.narrative_flags[label]
                    <=> (result.out.value.narratives.narrative_probs[label]
                            >= Get(predictor.metadata, setting, Scale \div 10))

\* C14, the part the code guarantees: the reporting threshold the Predictor
\* loaded changes no flag of a response
C14_FlagsIgnoreReportingThreshold ==
    AnalyzeReturned =>
        \A threshold \in {Scale \div 20, Scale \div 10, Scale \div 2} :
            _narratives([predictor EXCEPT !.narrative_threshold = threshold],
                        result.out.value.input_text)
                = _narratives(predictor, result.out.value.input_text)

\* a row of non-negative values that sum to 1 within 1e-6
IsDistribution(row) ==
    /\ \A i \in 1..Len(row) : row[i] >= 0
    /\ Abs(SumSeq(row) - Scale) <= Scale \div 1000000

\* the raw outputs of the role regressors for the text of the response
RawRoleOutputs == predictor.role_model.pipeline.predict[result.out.value.input_text]

\* the values of the role distribution computed for the response
RoleDistributionValues ==
    LET dist == _role_distribution(predictor, result.out.value.input_text).value
    IN  [idx \in 1..Len(dist) |-> dist[idx].value]

\* C15: for every text analyzed, the row the fitted RoleCompositionModel predicts
\* and the role distribution computed for the response hold only non-negative
\* values that sum to 1 within 1e-6
C15_RoleRowsAreDistributions ==
    AnalyzeReturned =>
        /\ IsDistribution(predict(predictor.role_model, result.out.value.input_text).value)
        /\ IsDistribution(RoleDistributionValues)

\* A response for a text whose raw outputs are outside the simplex
C15_Witness ==
    /\ AnalyzeReturned
    /\ ~IsDistribution(RawRoleOutputs)
    /\ \E i \in 1..Len(RawRoleOutputs) : RawRoleOutputs[i] < 0
    /\ IsDistribution(RoleDistributionValues)

\* C20 as stated: raw outputs that are already non-negative and sum to 1 are
\* returned unchanged as the role distribution; any other raw outputs are
\* returned as their row-wise softmax
C20_ValidRawOutputsPassThrough ==
    AnalyzeReturned =>
        RoleDistributionValues = IF IsDistribution(RawRoleOutputs)
                                 THEN RawRoleOutputs
                                 ELSE softmax_rows(RawRoleOutputs)

\* C20, the part the code guarantees: the role distribution is the row-wise
\* softmax of the raw outputs, whether or not they were a distribution already
C20_AlwaysSoftmax ==
    AnalyzeReturned => RoleDistributionValues = softmax_rows(RawRoleOutputs)

\* the result the call of thread r gets when it runs alone on the loaded Predictor
AloneResult(r) ==
    IF inflight[r].call = "analyze"
    THEN IF AnalyzeRequest(inflight[r].text, "None").ok
         THEN analyze(PredictorInit(model_dir).value,
                      AnalyzeRequest(inflight[r].text, "None").value, argsort_ties)
         ELSE AnalyzeRequest(inflight[r].text, "None")
    ELSE compare(PredictorInit(model_dir).value, inflight[r].baseline, inflight[r].variant,
                 argsort_ties)

\* C16: no analyze or compare call changes the loaded Predictor, and however the
\* statements of the calls in progress interleave, each reading the Predictor as
\* it is when it runs, a finished call has the result it gets when run alone
C16_ServingStateless ==
    Constructed =>
        /\ predictor = PredictorInit(model_dir).value
        /\ \A r \in 1..MaxRequests :
              inflight[r].pc = "done" => inflight[r].out = AloneResult(r)

\* A finished compare of two different texts while another compare is inside its
\* second analyze call, which has read the narrative model and not yet the risk
\* model
C16_Witness ==
    /\ Constructed
    /\ inflight[1].pc = "done"
    /\ inflight[1].call = "compare"
    /\ inflight[1].out.ok
    /\ inflight[1].baseline # inflight[1].variant
    /\ inflight[2].pc = "variant"
    /\ inflight[2].frame.pc = "roles"

-----------------------------------------------------------------------------
(* Properties of the service *)

\* C7 as stated: the service never accepts requests while the predictor is not
\* loaded; a load failure keeps the process from starting.
C7_NoServingWithoutPredictor == started => predictor.kind = "predictor"

IsBlank(text) == Len(Strip(text)) = 0

\* the response answers an analyze or compare request with an empty or
\* whitespace-only text
BlankRequest(resp) ==
    /\ "request" \in DOMAIN resp
    /\ \/ resp.request.op = "analyze" /\ IsBlank(resp.request.post_text)
       \/ /\ resp.request.op = "compare"
          /\ IsBlank(resp.request.baseline_text) \/ IsBlank(resp.request.variant_text)

\* the response answers a successful analyze or compare request
Answered(resp, op) ==
    "request" \in DOMAIN resp /\ resp.request.op = op /\ resp.status = 200

\* what a Predictor constructed afresh from the model directory answers
FreshAnalyze(text) ==
    analyze(load_predictor(model_dir).value,
            [post_text |-> Strip(text), company_hint |-> "None"], argsort_ties).value

FreshCompare(baseline, variant) ==
    compare(load_predictor(model_dir).value, Strip(baseline), Strip(variant), argsort_ties).value

\* C8: a request with an empty or whitespace-only text is answered with an error
\* that carries no result, and the step leaves the predictor and the run history
\* as they were; every successful request, whatever was rejected before it, is
\* answered as a freshly loaded predictor answers it.
C8_BlankTextRejected ==
    [][ /\ BlankRequest(response') =>
              /\ response'.status >= 400
              /\ DOMAIN response'.body = {"detail"}
              /\ runs' = runs
              /\ predictor' = predictor
        /\ Answered(response', "analyze") =>
              response'.body = FreshAnalyze(response'.request.post_text)
        /\ Answered(response', "compare") =>
              response'.body = FreshCompare(response'.request.baseline_text,
                                            response'.request.variant_text)
      ]_vars

\* C8 witness: a whitespace-only analyze request was rejected while the history
\* holds a run of an earlier request
C8_Witness ==
    /\ BlankRequest(response)
    /\ response.request.op = "analyze"
    /\ response.request.post_text = <<" ", "\f">>
    /\ response.request.save
    /\ response.status = 422
    /\ predictor.kind = "predictor"
    /\ Len(runs) = 1

\* the row fetch_history returns for a row of the table
FetchedRow(row) ==
    [id |-> row.id,
     created_at_iso |-> row.created_at_iso,
     mode |-> row.mode,
     baseline_text |-> row.baseline_text,
     variant_text |-> row.variant_text,
     response |-> row.response_json.json]

\* C17: no call of insert_run or fetch_history changes or removes a row the
\* history holds, and fetch_history(limit), for a limit of at least 0, returns
\* the min(limit, n) rows inserted last of the n rows, the newest first
C17_AppendOnlyNewestFirst ==
    [][/\ Len(runs') >= Len(runs)
       /\ \A i \in 1..Len(runs) : runs'[i] = runs[i]
       /\ (result'.call = "fetch_history" /\ result'.limit >= 0) =>
              /\ Len(result'.out.value) = Min(result'.limit, Len(runs'))
              /\ \A j \in 1..Len(result'.out.value) :
                    result'.out.value[j] = FetchedRow(runs'[Len(runs') + 1 - j])]_vars

\* A history of two rows read with limit 1: the row inserted last is returned
C17_Witness ==
    /\ Len(runs) = 2
    /\ runs[1] # runs[2]
    /\ result.call = "fetch_history"
    /\ result.limit = 1
    /\ Len(result.out.value) = 1
    /\ result.out.value[1].id = 2

-----------------------------------------------------------------------------
(* Properties of the training loader *)

DatasetsLoaded == bundle.call = "load_datasets" /\ bundle.out.ok

Tasks == {"role", "narrative", "risk"}

TrainOf(task) ==
    CASE task = "role" -> bundle.out.value.role_train
      [] task = "narrative" -> bundle.out.value.narrative_train
      [] task = "risk" -> bundle.out.value.risk_train

TestOf(task) ==
    CASE task = "role" -> bundle.out.value.role_test
      [] task = "narrative" -> bundle.out.value.narrative_test
      [] task = "risk" -> bundle.out.value.risk_test

\* the rows of a task: the merged posts that reach the task's comment minimum
TaskRows(task) ==
    LET frames == LoadFrames(data_dir, discover_companies(data_dir).value).value
        merged == MergeTargets(frames.posts, frames.comments).value
    IN  CASE task = "role" ->
               SelectSeq(merged, LAMBDA r : r.total_comments >= ROLE_MIN_COMMENTS)
          [] task = "narrative" ->
               SelectSeq(merged, LAMBDA r : r.total_comments >= NARRATIVE_MIN_COMMENTS)
          [] task = "risk" -> merged

\* no training row of the holdout company, every test row of it, every task row
\* in exactly one of the two
HoldoutSplit(task) ==
    LET H == bundle.holdout_company
        train == TrainOf(task)
        test == TestOf(task)
    IN  /\ \A r \in Range(train) : r.company # H
        /\ \A r \in Range(test) : r.company = H
        /\ \A r \in Range(TaskRows(task)) : (r \in Range(train)) # (r \in Range(test))
        /\ Range(train) \cup Range(test) \subseteq Range(TaskRows(task))
        /\ Len(train) + Len(test) = Len(TaskRows(task))

\* the manifest's train counts: no key for the holdout company, and for each
\* company with training rows the number of them
TrainCounts(task) ==
    LET counts == bundle.out.value.split_manifest[task].train
        train == TrainOf(task)
    IN  /\ bundle.holdout_company \notin DOMAIN counts
        /\ DOMAIN counts = {r.company : r \in Range(train)}
        /\ \A c \in DOMAIN counts : counts[c] = Cardinality({i \in 1..Len(train) : train[i].company = c})

\* C9 as stated: after load_datasets with holdout company H, every task is split
\* by company and the manifest's test counts are exactly {H: test row count},
\* whatever that count is.
C9_ManifestTestCountsAlwaysKeyed ==
    DatasetsLoaded =>
        \A task \in Tasks :
            /\ HoldoutSplit(task)
            /\ TrainCounts(task)
            /\ bundle.out.value.split_manifest[task].test
                   = (bundle.holdout_company :> Len(TestOf(task)))

\* C9 amended: after load_datasets with holdout company H, for every task no
\* training row is of H, every test row is of H, every task row is in exactly one
\* of train and test, the train counts have no key H and count the training rows
\* per company, and the test counts are {H: n} when the task has n >= 1 test rows
\* and empty when it has none.
C9_HoldoutSplitAndManifest ==
    DatasetsLoaded =>
        \A task \in Tasks :
            LET counts == bundle.out.value.split_manifest[task].test
                n == Len(TestOf(task))
            IN  /\ HoldoutSplit(task)
                /\ TrainCounts(task)
                /\ DOMAIN counts = IF n = 0 THEN {} ELSE {bundle.holdout_company}
                /\ \A c \in DOMAIN counts : counts[c] = n

\* C9 witness: a load whose holdout company has risk and narrative test rows but no
\* role test row, next to training rows of the other company
C9_Witness ==
    /\ DatasetsLoaded
    /\ Len(TestOf("risk")) > 0
    /\ Len(TestOf("narrative")) > 0
    /\ Len(TestOf("role")) = 0
    /\ Len(TrainOf("role")) > 0
    /\ bundle.out.value.split_manifest["role"].test = <<>>

PostsLoaded ==
    /\ bundle.call = "_load_posts"
    /\ bundle.company \in DOMAIN data_dir.posts
    /\ POST_REQUIRED_COLUMNS \subseteq data_dir.posts[bundle.company].columns
    /\ \A r \in Range(data_dir.posts[bundle.company].rows) : canonicalize_url(r.post_url).ok

FileRows == data_dir.posts[bundle.company].rows

CanonicalOf(r) == canonicalize_url(r.post_url).value

\* rows i and j of the file are different rows with the same, non-empty canonical URL
SharePair(rows, i, j) ==
    /\ i # j
    /\ CanonicalOf(rows[i]) # <<>>
    /\ CanonicalOf(rows[i]) = CanonicalOf(rows[j])

\* the row is kept by the filtering: it has a canonical URL and a non-blank text
Survives(r) == CanonicalOf(r) # <<>> /\ Len(Strip(AsStr(r.post_text))) > 0

\* rows i and j are the only two surviving rows that share a pair
OnlyDuplicates(rows, i, j) ==
    /\ SharePair(rows, i, j) /\ Survives(rows[i]) /\ Survives(rows[j])
    /\ \A k, l \in 1..Len(rows) :
          (SharePair(rows, k, l) /\ Survives(rows[k]) /\ Survives(rows[l])) => {k, l} = {i, j}

WithoutRow(rows, i) == SubSeq(rows, 1, i - 1) \o SubSeq(rows, i + 1, Len(rows))

LoadPostsWithout(i) ==
    _load_posts([data_dir EXCEPT !.posts[bundle.company].rows = WithoutRow(FileRows, i)],
                bundle.company)

UniqueKeys(df) == \A i, j \in 1..Len(df) : KeyOf(df[i]) = KeyOf(df[j]) => i = j

\* C10 as stated: a posts file with two rows that share a (company, canonical URL)
\* pair does not load.
C10_DuplicateRowsRaise ==
    PostsLoaded =>
        ((\E i, j \in 1..Len(FileRows) : SharePair(FileRows, i, j)) => ~bundle.out.ok)

\* C10 amended: a posts file in which two rows that survive the row filtering
\* (non-empty canonical URL, non-blank text) share a (company, canonical URL) pair
\* raises ValueError and returns nothing; when they are the only such two rows, the
\* file without either of them loads; a file without such rows loads, one record
\* per surviving row.  Every loaded frame has one record per pair.
C10_SurvivingDuplicatesRaise ==
    /\ PostsLoaded =>
          /\ (\E i, j \in 1..Len(FileRows) :
                 SharePair(FileRows, i, j) /\ Survives(FileRows[i]) /\ Survives(FileRows[j]))
             <=> bundle.out = Raise("ValueError")
          /\ \A i, j \in 1..Len(FileRows) :
                 OnlyDuplicates(FileRows, i, j) =>
                     /\ LoadPostsWithout(i).ok
                     /\ Len(LoadPostsWithout(i).value) = Len(SelectSeq(FileRows, Survives)) - 1
          /\ bundle.out.ok =>
                 /\ UniqueKeys(bundle.out.value)
                 /\ Len(bundle.out.value) = Len(SelectSeq(FileRows, Survives))
    /\ DatasetsLoaded =>
          /\ UniqueKeys(bundle.out.value.risk_train \o bundle.out.value.risk_test)
          /\ UniqueKeys(bundle.out.value.retriever_train_posts)

\* C10 witness: a posts file with two surviving rows under one canonical URL was
\* refused
C10_Witness ==
    /\ PostsLoaded
    /\ bundle.out = Raise("ValueError")
    /\ \E i, j \in 1..Len(FileRows) :
          /\ OnlyDuplicates(FileRows, i, j)
          /\ FileRows[i].post_url # FileRows[j].post_url

-----------------------------------------------------------------------------
(* Properties of the RoleCompositionModel *)

Built == estimator.kind = "RoleCompositionModel"

\* no fit call on the model has succeeded
NotFitted == Built /\ \A i \in 1..Len(estimator.fits) : estimator.fits[i] # "fitted"

\* fit has not been called on the model
FitNeverCalled == Built /\ estimator.fits = <<>>

\* the fit calls on the model that got as far as assigning self.pipeline
ReachingFits == SelectSeq(estimator.fits, LAMBDA f : f # "rejected")

\* no fit call has assigned self.pipeline: none was made, or each raised before
NoFitReached == Built /\ ReachingFits = <<>>

\* the last fit call that assigned self.pipeline raised in self.pipeline.fit
LastFitFailed ==
    Built /\ ReachingFits # <<>> /\ ReachingFits[Len(ReachingFits)] = "failed"

\* the last fit call that assigned self.pipeline succeeded
LastFitSucceeded ==
    Built /\ ReachingFits # <<>> /\ ReachingFits[Len(ReachingFits)] = "fitted"

\* the step is a fit call that raised before self.pipeline was assigned
RejectedFit ==
    /\ Built
    /\ estimator'.last.call = "fit"
    /\ estimator'.fits = Append(estimator.fits, "rejected")

\* the step is a call of one of the three reading methods
ReadCall == estimator'.last.call \in {"predict", "predict_raw", "get_tfidf"}

\* C18 as stated: on a model that has not been fitted, predict, predict_raw and
\* get_tfidf fail with an error and leave it unfitted; after a successful fit,
\* predict does not raise the not-fitted error
C18_NotFittedFailsOnEveryCall ==
    [][/\ (NotFitted /\ ReadCall) =>
              /\ ~estimator'.last.out.ok
              /\ estimator'.model = estimator.model
              /\ estimator'.fits = estimator.fits
       /\ (estimator'.last.call = "fit" /\ estimator'.last.out.ok) =>
              predict(estimator'.model, TextA).ok]_vars

\* C18, amended: while no fit call has assigned self.pipeline (none made, or each
\* raised building the vectorizer), the three methods raise RuntimeError; when
\* the last fit call that assigned it raised, predict and predict_raw raise
\* NotFittedError while get_tfidf returns the vectorizer of the unfitted
\* pipeline; when it succeeded, predict returns; a fit call that raises before
\* the assignment raises TypeError and leaves the model as it was; none of the
\* three reading calls changes the model
C18_FailsUntilFitIsCalled ==
    [][/\ (NoFitReached /\ ReadCall) => estimator'.last.out = Raise("RuntimeError")
       /\ (LastFitFailed /\ estimator'.last.call \in {"predict", "predict_raw"}) =>
              estimator'.last.out = Raise("NotFittedError")
       /\ (LastFitFailed /\ estimator'.last.call = "get_tfidf") => estimator'.last.out.ok
       /\ (LastFitSucceeded /\ estimator'.last.call = "predict") =>
              estimator'.last.out.ok
       /\ RejectedFit =>
              /\ estimator'.last.out = Raise("TypeError")
              /\ estimator'.model = estimator.model
       /\ (Built /\ ReadCall) =>
              /\ estimator'.model = estimator.model
              /\ estimator'.fits = estimator.fits]_vars

\* predict has raised the pipeline's error on a model whose first fit call was
\* rejected before the assignment and whose second raised in self.pipeline.fit
C18_Witness ==
    /\ Built
    /\ estimator.fits = <<"rejected", "failed">>
    /\ estimator.last.call = "predict"
    /\ estimator.last.out = Raise("NotFittedError")

-----------------------------------------------------------------------------
(* Properties of canonicalize_url *)

Canonicalized == canon.call = "canonicalize_url" /\ canon.out.ok

\* C11 as stated: canonicalize_url is idempotent, that is, for every input string
\* u, canonicalizing the canonical form of u returns that canonical form again
C11_CanonicalizeIdempotent ==
    Canonicalized => canonicalize_url(canon.out.value) = canon.out

\* A URL without query and fragment: a string free of white space, "?" and "#"
IsBareUrl(u) ==
    /\ u # NaN
    /\ \A i \in 1..Len(u) : ~IsSpace(u[i]) /\ u[i] \notin {"?", "#"}

\* What two URLs may differ in: a trailing slash, a query string, a fragment
SlashParts == {<<>>, <<"/">>}
QueryParts == {<<>>, <<"?">>, <<"?", "s">>, <<"?", "A", "/">>}
FragmentParts == {<<>>, <<"#">>, <<"#", "A">>, <<"#", "s", "/">>}

\* The URLs that differ from the bare URL u only in those parts
Variants(u) ==
    {u \o slash \o query \o fragment :
        slash \in SlashParts, query \in QueryParts, fragment \in FragmentParts}

BareCanonicalized ==
    canon.call = "canonicalize_url" /\ canon.pass = 1 /\ IsBareUrl(canon.url)

\* C12: two URLs that differ only in their query string, their fragment or a
\* trailing slash canonicalize to the same string (or both are rejected): every
\* such variant of a canonicalized URL has the canonical form of that URL
C12_VariantsShareCanonicalForm ==
    BareCanonicalized =>
        \A v \in Variants(canon.url) : canonicalize_url(v) = canon.out

\* A URL with a non-empty canonical form, shared by a variant with a trailing
\* slash, a query string and a fragment
C12_Witness ==
    /\ BareCanonicalized
    /\ canon.out.ok
    /\ Len(canon.out.value) > 2
    /\ canonicalize_url(canon.url \o <<"/", "?", "s", "#", "A">>) = canon.out

-----------------------------------------------------------------------------
(* Properties of a training run *)

\* the completed statement groups of the run that are stages of the pipeline:
\* the load, the three fits and the retriever build
PipelineStages ==
    SelectSeq(training.stages,
              LAMBDA s : s.stage \in {"load_datasets", "fit", "build_retriever_artifacts"})

\* load, fit role, fit narrative, fit risk, build retriever
StageOrder ==
    <<[stage |-> "load_datasets", task |-> "None"],
      [stage |-> "fit", task |-> "role"],
      [stage |-> "fit", task |-> "narrative"],
      [stage |-> "fit", task |-> "risk"],
      [stage |-> "build_retriever_artifacts", task |-> "None"]>>

RetrieverBuilt ==
    \E i \in 1..Len(training.stages) : training.stages[i].stage = "build_retriever_artifacts"

\* the files the serving side reads from the model directory
Artifacts == ModelFiles \cup RetrieverFiles \cup {MetadataFile}

\* C19: a training run completes its stages in the order load, fit role, fit
\* narrative, fit risk, build retriever, and it persists artifacts only as the
\* last stage: no artifact is on disk before the retriever has been built.
C19_ArtifactsPersistedOnlyAfterRetriever ==
    training.pc # "idle" =>
        /\ Len(PipelineStages) <= Len(StageOrder)
        /\ PipelineStages = SubSeq(StageOrder, 1, Len(PipelineStages))
        /\ (training.files \cap Artifacts # {} => RetrieverBuilt)

-----------------------------------------------------------------------------
(* Properties of the training targets *)

NarrativeFlagsComputed == bundle.call = "_compute_narrative_flags"

\* the comments of the frame under the post `key`
CommentsOf(key) == SelectSeq(bundle.comments_df, LAMBDA r : KeyOf(r) = key)

\* the comments among them that carry the narrative `l`
CarryingNarrative(key, l) == SelectSeq(CommentsOf(key), LAMBDA r : r.narrative = l)

\* the comments among them that carry one of the five narrative labels
Recognised(key) == SelectSeq(CommentsOf(key), LAMBDA r : InSeq(NARRATIVE_LABELS, r.narrative))

\* C21: for a post that has comments, the flag of a narrative label is 1 exactly
\* when the label's share of the post's comments is at least 10%, the comments with
\* an unrecognised narrative left out of the shares.
C21_FlagIffShareOfRecognisedComments ==
    (NarrativeFlagsComputed /\ bundle.out.used_comments) =>
        \A key \in DOMAIN bundle.out.flags : \A l \in Range(NARRATIVE_LABELS) :
            bundle.out.flags[key][l] =
                IF Len(Recognised(key)) > 0
                   /\ 10 * Len(CarryingNarrative(key, l)) >= Len(Recognised(key))
                THEN 1 ELSE 0

\* the posts the loader kept: every merged post is a risk row
MergedRows == bundle.out.value.risk_train \o bundle.out.value.risk_test

\* the companies that loaded without any usable comment
CompaniesWithoutComments ==
    {c \in DOMAIN data_dir.comments : _load_comments_full(data_dir, c).value = <<>>}

\* the flags the toxic/burnout proxy of a post gives
ProxyFlags(r) ==
    [l \in Range(NARRATIVE_LABELS) |->
        IF l \in {"toxic_culture", "burnout"} /\ r.pct_toxic_burnout >= NARRATIVE_THRESHOLD
        THEN 1 ELSE 0]

\* C22: when a company has no comment-level narrative data, every post of that
\* company carries the proxy's toxic_culture and burnout flags and no other
\* flag, and the fallback is logged as a warning.
C22_ProxyFlagsPerCompanyWithoutComments ==
    DatasetsLoaded =>
        \A c \in CompaniesWithoutComments :
            (\E r \in Range(MergedRows) : r.company = c) =>
                /\ \A r \in Range(MergedRows) : r.company = c => r.flags = ProxyFlags(r)
                /\ bundle.warnings # <<>>

\* a risk class cell that is missing or holds white space only
BlankCell(cell) == cell = NaN \/ Strip(cell) = <<>>

\* the posts of every company as _load_posts returns them
LoadedPosts == LoadFrames(data_dir, discover_companies(data_dir).value).value.posts

\* the call reached the merge: the holdout company has a posts file and the posts
\* and comments of every company were read
ReachedMerge ==
    /\ bundle.call = "load_datasets"
    /\ discover_companies(data_dir).ok
    /\ InSeq(discover_companies(data_dir).value, bundle.holdout_company)
    /\ LoadFrames(data_dir, discover_companies(data_dir).value).ok

\* C23: once the posts are read, every post gets its risk class target: the
\* trimmed, title-cased risk_class_full when that cell is not blank, else the
\* trimmed, title-cased risk_class; a post with both cells blank or missing is in
\* neither risk set, every other post is in one.
C23_EveryPostGetsItsRiskTarget ==
    ReachedMerge =>
        /\ bundle.out.ok
        /\ \A r \in Range(MergedRows) :
              r.risk_class_target =
                  IF ~BlankCell(r.risk_class_full) THEN Title(Strip(r.risk_class_full))
                  ELSE Title(Strip(r.risk_class))
        /\ \A p \in Range(LoadedPosts) :
              (BlankCell(p.risk_class_full) /\ BlankCell(p.risk_class))
                  <=> ~(\E r \in Range(MergedRows) : KeyOf(r) = KeyOf(p))

\* the comments of every company as _load_comments_full returns them
LoadedComments == LoadFrames(data_dir, discover_companies(data_dir).value).value.comments

\* the loaded comments under the post r
CommentsUnder(r) == SelectSeq(LoadedComments, LAMBDA c : KeyOf(c) = KeyOf(r))

\* the comments among cs whose role bucket is "Other", missing, or not a bucket
OtherComments(cs) ==
    SelectSeq(cs, LAMBDA c : c.role_bucket = "Other" \/ c.role_bucket = NaNLabel
                             \/ ~InSeq(ROLE_BUCKETS, c.role_bucket))

\* the role shares of a post in the order of ROLE_BUCKETS
RoleShares(r) == [i \in 1..Len(ROLE_BUCKETS) |-> r.roles[ROLE_BUCKETS[i]]]

\* C24: the role shares of a post are non-negative; they sum to 1 when the post has
\* a comment and are all 0 when it has none; the comments with a missing or
\* unknown role bucket are counted under "Other".
C24_RoleSharesSumToOneOrZero ==
    DatasetsLoaded =>
        \A r \in Range(MergedRows) :
            /\ \A b \in Range(ROLE_BUCKETS) : r.roles[b] >= 0
            /\ CommentsUnder(r) # <<>> =>
                  /\ IsDistribution(RoleShares(r))
                  /\ r.roles["Other"] =
                        (Len(OtherComments(CommentsUnder(r))) * Scale) \div Len(CommentsUnder(r))
            /\ CommentsUnder(r) = <<>> => \A b \in Range(ROLE_BUCKETS) : r.roles[b] = 0

\* a load with a post whose comments include a missing and an unknown bucket next
\* to a known one, and a post without comments
C24_Witness ==
    /\ DatasetsLoaded
    /\ \E r \in Range(MergedRows) :
          /\ \E c \in Range(CommentsUnder(r)) : c.role_bucket = NaNLabel
          /\ \E c \in Range(CommentsUnder(r)) :
                c.role_bucket # NaNLabel /\ ~InSeq(ROLE_BUCKETS, c.role_bucket)
          /\ r.roles["Other"] > 0
          /\ r.roles["Software Engineer"] > 0
    /\ \E r \in Range(MergedRows) : CommentsUnder(r) = <<>>

-----------------------------------------------------------------------------
(* Properties of the grouped cross-validation *)

CvRan == training.pc = "run_group_cv"

\* the companies with a row among the rows idx of the frame
CompaniesAt(idx) == {training.df[i].company : i \in idx}

CvCompanies == CompaniesAt(1..Len(training.df))

\* C25: with fewer than 2 distinct companies the grouped cross-validation returns
\* an empty result and fits no model; otherwise it draws between 2 and
\* (number of companies) folds, and no company has rows in both the training part
\* and the validation part of a fold.  One model is fitted per fold drawn; a fold
\* whose fit or scoring raises ends the call, and a call that returns has drawn
\* every fold.
C25_GroupedFoldsOrSkipped ==
    CvRan =>
        /\ Cardinality(CvCompanies) < 2 =>
              /\ training.out = Return([scores |-> <<>>])
              /\ training.fits = 0
              /\ training.folds = <<>>
        /\ Cardinality(CvCompanies) >= 2 =>
              /\ 2 <= training.splits
              /\ training.splits <= Cardinality(CvCompanies)
              /\ training.fits >= 1
              /\ training.fits = Len(training.folds)
              /\ Len(training.folds) <= training.splits
              /\ \A f \in 1..Len(training.folds) :
                    /\ CompaniesAt(training.folds[f].train_idx)
                          \cap CompaniesAt(training.folds[f].val_idx) = {}
                    /\ training.folds[f].train_idx \cup training.folds[f].val_idx
                          = 1..Len(training.df)
        /\ training.out.ok => Len(training.folds) = training.splits

\* a cross-validation over three companies in two folds that returned its scores,
\* with a validation part of two companies
C25_Witness ==
    /\ CvRan
    /\ training.out.ok
    /\ Cardinality(CvCompanies) = 3
    /\ training.splits = 2
    /\ training.fits = 2
    /\ \E f \in 1..2 : Cardinality(CompaniesAt(training.folds[f].val_idx)) = 2

-----------------------------------------------------------------------------
(* Properties of the evidence functions *)

PhrasesCompared == result.call = "_compare_top_phrases"

\* the terms of the two phrase lists of the call
ComparedTerms ==
    {result.baseline_phrases[i].ngram : i \in 1..Len(result.baseline_phrases)}
    \cup {result.variant_phrases[i].ngram : i \in 1..Len(result.variant_phrases)}

\* the variant's weights of a term summed, less the baseline's
ShiftOf(term) == WeightOf(result.variant_phrases, term) - WeightOf(result.baseline_phrases, term)

\* C26: changed_top_phrases holds each term at most once, with the sum of its
\* weights in the variant's evidence less the sum in the baseline's; it is ordered
\* by non-increasing absolute weight and holds the 10 entries largest in absolute
\* weight, or all of them when there are fewer.
C26_ChangedPhrasesMergedRankedTopTen ==
    PhrasesCompared =>
        LET out == result.out
            listed == {out[i].ngram : i \in 1..Len(out)}
        IN  /\ Len(out) = Min(10, Cardinality(ComparedTerms))
            /\ Cardinality(listed) = Len(out)
            /\ listed \subseteq ComparedTerms
            /\ \A i \in 1..Len(out) : out[i].weight = ShiftOf(out[i].ngram)
            /\ \A i \in 1..Len(out), j \in 1..Len(out) :
                  i < j => Abs(out[i].weight) >= Abs(out[j].weight)
            /\ \A t \in ComparedTerms \ listed, i \in 1..Len(out) :
                  Abs(ShiftOf(t)) <= Abs(out[i].weight)

\* a comparison of lists that share a term: the merged list is cut to ten entries
\* and leaves out a term that shifted less than every term listed
C26_Witness ==
    /\ PhrasesCompared
    /\ Cardinality(ComparedTerms) > 10
    /\ Len(result.out) = 10
    /\ \E t \in ComparedTerms :
          /\ WeightOf(result.variant_phrases, t) # 0
          /\ WeightOf(result.baseline_phrases, t) # 0
          /\ ShiftOf(t) # 0
    /\ \E t \in ComparedTerms :
          /\ \A i \in 1..10 : result.out[i].ngram # t
          /\ Abs(ShiftOf(t)) < Abs(result.out[10].weight)

ContributionsRanked == result.call = "top_contributions_from_vec"

\* the stored entries of the sparse row of the call
StoredEntries == 1..Len(result.vec.data)

\* the contribution of the stored entry e: its feature value times the
\* coefficient of its term
ContributionOf(e) == result.vec.data[e] * result.coefs[result.vec.indices[e]]

\* C27: top_contributions_from_vec returns at most top_k entries, one per term
\* present in the vector, each with the term's feature value times its
\* coefficient as weight, in order of non-increasing absolute weight, and no term
\* left out weighs more than a term returned; the list is empty when the
\* dimensions of vector and coefficients differ or the vector has no term.
C27_TopContributionsRanked ==
    ContributionsRanked =>
        LET out == result.out
        IN  IF result.vec.ncols # Len(result.coefs) \/ StoredEntries = {}
            THEN out = <<>>
            ELSE \E entry \in [1..Len(out) -> StoredEntries] :
                    /\ Len(out) = Min(result.top_k, Len(result.vec.data))
                    /\ \A i \in 1..Len(out), j \in 1..Len(out) : i # j => entry[i] # entry[j]
                    /\ \A i \in 1..Len(out) :
                          /\ out[i].ngram = Tfidf.feature_names[result.vec.indices[entry[i]]]
                          /\ out[i].weight = ContributionOf(entry[i])
                    /\ \A i \in 1..Len(out), j \in 1..Len(out) :
                          i < j => Abs(out[i].weight) >= Abs(out[j].weight)
                    /\ \A e \in StoredEntries \ {entry[i] : i \in 1..Len(out)}, i \in 1..Len(out) :
                          Abs(ContributionOf(e)) <= Abs(out[i].weight)

\* a ranking of three terms cut to two, the term left out weighing less than the
\* two returned, one of which weighs negative
C27_Witness ==
    /\ ContributionsRanked
    /\ Len(result.vec.data) = 3
    /\ result.top_k = 2
    /\ Len(result.out) = 2
    /\ result.out[1].weight < 0
    /\ Abs(result.out[1].weight) > Abs(result.out[2].weight)
    /\ \E e \in StoredEntries :
          /\ \A i \in 1..2 : result.out[i].ngram # Tfidf.feature_names[result.vec.indices[e]]
          /\ Abs(ContributionOf(e)) < Abs(result.out[2].weight)

-----------------------------------------------------------------------------
(* Properties of the run history of the service *)

\* the prediction of an /analyze request with this text succeeds
AnalyzeSucceeds(text) ==
    /\ predictor.kind # "none"
    /\ AnalyzeRequest(text, "None").ok
    /\ analyze(predictor, AnalyzeRequest(text, "None").value, argsort_ties).ok

\* the prediction of an /analyze/compare request with these texts succeeds
CompareSucceeds(baseline, variant) ==
    /\ predictor.kind # "none"
    /\ CompareRequest(baseline, variant).ok
    /\ compare(predictor, CompareRequest(baseline, variant).value.baseline_text,
               CompareRequest(baseline, variant).value.variant_text, argsort_ties).ok

\* C28: a history row is inserted only by an /analyze or /analyze/compare request
\* whose prediction succeeded and whose save flag is true, exactly one row per
\* such request; a request that fails or has save=false leaves the history
\* unchanged.
C28_OneRowPerSavedPrediction ==
    [][ /\ runs' # runs =>
              /\ Len(runs') = Len(runs) + 1
              /\ SubSeq(runs', 1, Len(runs)) = runs
              /\ response'.request.op \in {"analyze", "compare"}
              /\ response'.request.save
              /\ response'.status = 200
        /\ \A text \in RawTexts, save \in BOOLEAN :
              Analyze(text, save) =>
                  IF save /\ AnalyzeSucceeds(text)
                  THEN Len(runs') = Len(runs) + 1 /\ runs'[Len(runs')].mode = "analyze"
                  ELSE runs' = runs
        /\ \A baseline \in RawTexts, variant \in RawTexts, save \in BOOLEAN :
              Compare(baseline, variant, save) =>
                  IF save /\ CompareSucceeds(baseline, variant)
                  THEN Len(runs') = Len(runs) + 1 /\ runs'[Len(runs')].mode = "compare"
                  ELSE runs' = runs
      ]_vars

-----------------------------------------------------------------------------
(* Properties of the model directory of a training run *)

\* the model directory the run has written so far, as the serving side finds it
ModelDirOf(files) ==
    [path |-> ModelDirPath, exists |-> TRUE,
     files |-> Restrict((MetadataFile :> _save_reports(training.holdout_company, TfidfParams))
                        @@ DefaultFiles, files)]

\* C29: metadata.json is written only after the three model files and the
\* retriever artifacts; from an empty output directory, a run that has not
\* finished leaves a model directory from which no Predictor can be constructed.
C29_MetadataWrittenLast ==
    training.pc # "idle" =>
        /\ MetadataFile \in training.files =>
              (ModelFiles \cup RetrieverFiles) \subseteq training.files
        /\ training.pc # "done" => ~PredictorInit(ModelDirOf(training.files)).ok
        /\ training.pc = "done" => PredictorInit(ModelDirOf(training.files)).ok

\* a run that failed in the retriever build, the three models already on disk
C29_Witness ==
    /\ training.pc = "failed"
    /\ ModelFiles \subseteq training.files
    /\ MetadataFile \notin training.files
    /\ ~PredictorInit(ModelDirOf(training.files)).ok

-----------------------------------------------------------------------------
(* Properties of the task sets of the loader *)

\* C30: posts without a risk class target are dropped before the task sets are
\* built: for train and for test, every role row (at least 15 comments) is a
\* narrative row (at least 5 comments) and every narrative row is a risk row; the
\* retriever's training posts are the risk training rows; no row of any set lacks
\* its risk class target.
C30_TaskSetsNested ==
    DatasetsLoaded =>
        LET b == bundle.out.value
        IN  /\ Range(b.role_train) \subseteq Range(b.narrative_train)
            /\ Range(b.narrative_train) \subseteq Range(b.risk_train)
            /\ Range(b.role_test) \subseteq Range(b.narrative_test)
            /\ Range(b.narrative_test) \subseteq Range(b.risk_test)
            /\ b.retriever_train_posts = b.risk_train
            /\ \A r \in Range(b.role_train) \cup Range(b.role_test) :
                  r.total_comments >= ROLE_MIN_COMMENTS
            /\ \A r \in Range(b.narrative_train) \cup Range(b.narrative_test) :
                  r.total_comments >= NARRATIVE_MIN_COMMENTS
            /\ \A r \in Range(b.risk_train) \cup Range(b.risk_test)
                        \cup Range(b.retriever_train_posts) :
                  r.risk_class_target # NaN /\ ~BlankCell(r.risk_class_target)

\* a load with a test post that is a narrative row but no role row, a training
\* post that is a risk row only, and a post dropped for want of a risk class
C30_Witness ==
    /\ DatasetsLoaded
    /\ \E r \in Range(bundle.out.value.narrative_test) :
          r \notin Range(bundle.out.value.role_test)
    /\ \E r \in Range(bundle.out.value.risk_train) :
          r \notin Range(bundle.out.value.narrative_train)
    /\ bundle.out.value.retriever_train_posts # <<>>
    /\ \E p \in Range(LoadedPosts) :
          ~(\E r \in Range(MergedRows) : KeyOf(r) = KeyOf(p))

====
